---------------------------- MODULE Spec2Model ----------------------------
(***************************************************************************)
(* A model of the record reconciliation engine of kyle703/crakt:           *)
(*   scripts/usa_climbing_gyms.py  (RateLimiter, http_request, dedupe)     *)
(*   scripts/validate_gyms.py      (RateLimiter, http_request_with_retry,  *)
(*                                  GooglePlacesAPI, NominatimAPI)         *)
(*                                                                         *)
(* Conventions.                                                            *)
(*  - A Python str is a sequence of one-character strings; an Optional     *)
(*    value is a set: {} is None and {v} is the value v.                   *)
(*  - A latitude or longitude is an integer number of 1/10000 degree.      *)
(*  - Each component has its own initial condition and next-state          *)
(*    relation; the variables of the components that do not run keep       *)
(*    their idle values, under which none of their actions is enabled.     *)
(***************************************************************************)
EXTENDS Integers, Sequences, FiniteSets, TLC

VARIABLES
    \* dedupe(records) -- usa_climbing_gyms.py
    records,      \* the argument: a sequence of record dicts
    pos,          \* index of the record the outer loop is at (1-based)
    out,          \* the list `out`
    seen_keys,    \* the set `seen_keys`
    \* RateLimiter -- usa_climbing_gyms.py, validate_gyms.py
    rl,           \* the limiter object: rate, capacity, tokens, timestamp,
                  \* request_count
    clock,        \* time.monotonic(), in ticks
    thr,          \* the callers running take() concurrently: per thread its
                  \* program counter and locals (<<>> for a single caller)
    obs,          \* what an observer of the limiter has counted
    \* http_request -- usa_climbing_gyms.py; http_request_with_retry and its
    \* callers -- validate_gyms.py
    call,         \* the logical request: the fetcher, its retry budget,
                  \* whether a rate limiter is in use
    attempt,      \* the loop variable `attempt`
    log,          \* the status of the response to each attempt issued
    last,         \* the response to the latest attempt, in full
    backoff,      \* the backoff sleeps: their number, the latest one and
                  \* the response and attempt it followed
    takes,        \* calls of RateLimiter.take() for this logical request
    result,       \* running, or what the call returned or raised
    \* validate_gyms and the API clients' search_gym -- validate_gyms.py
    provider,     \* api_type: "google" or "nominatim"
    gyms,         \* the gyms loaded from the database, in id order
    vpos,         \* index of the gym being validated
    vstep,        \* where search_gym stands for that gym
    vplace,       \* the place id the Locate step returned
    results,      \* the list `results` of validate_gyms
    vlog,         \* the requests issued and comparisons made, per gym
    \* update_gyms_from_validation -- validate_gyms.py
    batch,        \* the outcomes handed to the reconciler
    dry_run,      \* its dry_run argument
    rpos,         \* index of the outcome being applied
    db,           \* gyms and gym_metadata as the open connection sees them
    durable,      \* gyms and gym_metadata as committed
    rstate        \* idle, running, committed, closed (dry run) or aborted

dvars == <<records, pos, out, seen_keys>>
lvars == <<rl, clock, thr, obs>>
fvars == <<call, attempt, log, last, backoff, takes, result>>
vvars == <<provider, gyms, vpos, vstep, vplace, results, vlog>>
rvars == <<batch, dry_run, rpos, db, durable, rstate>>

vars == <<dvars, lvars, fvars, vvars, rvars>>

-----------------------------------------------------------------------------
(* Python values                                                           *)

None == {}
Some(v) == {v}
Val(o) == CHOOSE v \in o : TRUE

\* bool(s) of an Optional[str]: None and "" are falsy.
TruthyStr(o) == o # None /\ o # Some(<<>>)
\* bool(x) of an Optional[float]: None and 0.0 are falsy.
TruthyNum(o) == o # None /\ o # Some(0)
\* `v in (None, "", [])` for a string field and for a numeric field (0.0 is
\* none of the three).
IsEmptyStr(o) == o = None \/ o = Some(<<>>)
IsEmptyNum(o) == o = None

\* str.lower() on the characters the model uses.
LowerChar(c) ==
    CASE c = "S" -> "s"
      [] c = "P" -> "p"
      [] c = "C" -> "c"
      [] c = "A" -> "a"
      [] OTHER -> c

Lower(s) == [i \in 1..Len(s) |-> LowerChar(s[i])]

RECURSIVE LStrip(_)
LStrip(s) == IF s # <<>> /\ Head(s) = " " THEN LStrip(Tail(s)) ELSE s

RECURSIVE RStrip(_)
RStrip(s) ==
    IF s # <<>> /\ s[Len(s)] = " " THEN RStrip(SubSeq(s, 1, Len(s) - 1)) ELSE s

\* str.strip()
Strip(s) == LStrip(RStrip(s))

\* `a in b` for two str.
Contains(a, b) ==
    \E i \in 1..(Len(b) - Len(a) + 1) : SubSeq(b, i, i + Len(a) - 1) = a

Abs(x) == IF x < 0 THEN -x ELSE x

-----------------------------------------------------------------------------
(* usa_climbing_gyms.py: haversine_km, dedupe                              *)

EarthRadiusKm == 6371

\* haversine_km, in metres, for two points given in 1/10000 degree. The
\* model's points lie on one meridian (dlon = 0), where the formula reduces
\* to R * |dlat| (radians); pi is taken as 22/7. Off the meridian the
\* longitude difference is added as on the equator, an upper bound that only
\* matters for points the model never holds.
haversine_m(lat1, lon1, lat2, lon2) ==
    (EarthRadiusKm * 22 * (Abs(lat2 - lat1) + Abs(lon2 - lon1))) \div 12600

\* dist <= 0.25 (km), in metres.
MergeRadiusM == 250

\* def norm(s): return (s or "").strip().lower()
norm(o) == IF TruthyStr(o) THEN Lower(Strip(Val(o))) ELSE <<>>

\* key = (norm(r.get("name")), norm(r.get("city")), norm(r.get("state")))
KeyOf(r) == <<norm(r.name), norm(r.city), norm(r.state)>>

\* (nm_a in nm_b or nm_b in nm_a)
NameCompat(r, ex) ==
    Contains(norm(r.name), norm(ex.name)) \/ Contains(norm(ex.name), norm(r.name))

\* A variant of the test without the branch for records that lack
\* coordinates.
MatchesSpatialOnly(r, ex) ==
    /\ TruthyStr(r.name) /\ TruthyStr(ex.name)
    /\ TruthyNum(r.latitude) /\ TruthyNum(ex.latitude)
    /\ haversine_m(Val(r.latitude), Val(r.longitude),
                   Val(ex.latitude), Val(ex.longitude)) <= MergeRadiusM
    /\ NameCompat(r, ex)

\* A variant of the test that merges compatible names at any distance.
MatchesAnyDistance(r, ex) ==
    IF ~TruthyStr(r.name) \/ ~TruthyStr(ex.name)
    THEN FALSE
    ELSE IF TruthyNum(r.latitude) /\ TruthyNum(ex.latitude)
    THEN NameCompat(r, ex)
    ELSE /\ NameCompat(r, ex)
         /\ norm(r.city) = norm(ex.city)
         /\ norm(r.state) = norm(ex.state)

\* A variant of the test that takes compatible names for enough when a
\* record lacks coordinates.
MatchesByNameOnly(r, ex) ==
    IF ~TruthyStr(r.name) \/ ~TruthyStr(ex.name)
    THEN FALSE
    ELSE IF TruthyNum(r.latitude) /\ TruthyNum(ex.latitude)
    THEN /\ haversine_m(Val(r.latitude), Val(r.longitude),
                        Val(ex.latitude), Val(ex.longitude)) <= MergeRadiusM
         /\ NameCompat(r, ex)
    ELSE NameCompat(r, ex)

\* A variant of the test that does not pass over records without a name.
MatchesUnnamed(r, ex) ==
    IF TruthyNum(r.latitude) /\ TruthyNum(ex.latitude)
    THEN /\ haversine_m(Val(r.latitude), Val(r.longitude),
                        Val(ex.latitude), Val(ex.longitude)) <= MergeRadiusM
         /\ NameCompat(r, ex)
    ELSE /\ NameCompat(r, ex)
         /\ norm(r.city) = norm(ex.city)
         /\ norm(r.state) = norm(ex.state)

\* The test of one iteration of the inner loop: does r merge into ex?
Matches(r, ex) ==
    IF ~TruthyStr(r.name) \/ ~TruthyStr(ex.name)
    THEN FALSE                                         \* continue
    ELSE IF TruthyNum(r.latitude) /\ TruthyNum(ex.latitude)
    THEN /\ haversine_m(Val(r.latitude), Val(r.longitude),
                        Val(ex.latitude), Val(ex.longitude)) <= MergeRadiusM
         /\ NameCompat(r, ex)
    ELSE /\ NameCompat(r, ex)
         /\ norm(r.city) = norm(ex.city)
         /\ norm(r.state) = norm(ex.state)

\* A variant of the merge in which a populated value of r wins.
MergeOverwrite(ex, r) ==
    [source_id |-> r.source_id,
     name      |-> IF IsEmptyStr(r.name) THEN ex.name ELSE r.name,
     city      |-> IF IsEmptyStr(r.city) THEN ex.city ELSE r.city,
     state     |-> IF IsEmptyStr(r.state) THEN ex.state ELSE r.state,
     latitude  |-> IF IsEmptyNum(r.latitude) THEN ex.latitude ELSE r.latitude,
     longitude |-> IF IsEmptyNum(r.longitude) THEN ex.longitude ELSE r.longitude,
     phone     |-> IF IsEmptyStr(r.phone) THEN ex.phone ELSE r.phone]

\* A merge that leaves the longitude out.
MergeSkipsLongitude(ex, r) ==
    [source_id |-> ex.source_id,
     name      |-> IF IsEmptyStr(ex.name) THEN r.name ELSE ex.name,
     city      |-> IF IsEmptyStr(ex.city) THEN r.city ELSE ex.city,
     state     |-> IF IsEmptyStr(ex.state) THEN r.state ELSE ex.state,
     latitude  |-> IF IsEmptyNum(ex.latitude) THEN r.latitude ELSE ex.latitude,
     longitude |-> ex.longitude,
     phone     |-> IF IsEmptyStr(ex.phone) THEN r.phone ELSE ex.phone]

\* for k, v in r.items(): if ex.get(k) in (None, "", []): ex[k] = v
MergeInto(ex, r) ==
    [source_id |-> ex.source_id,                        \* never empty
     name      |-> IF IsEmptyStr(ex.name) THEN r.name ELSE ex.name,
     city      |-> IF IsEmptyStr(ex.city) THEN r.city ELSE ex.city,
     state     |-> IF IsEmptyStr(ex.state) THEN r.state ELSE ex.state,
     latitude  |-> IF IsEmptyNum(ex.latitude) THEN r.latitude ELSE ex.latitude,
     longitude |-> IF IsEmptyNum(ex.longitude) THEN r.longitude ELSE ex.longitude,
     phone     |-> IF IsEmptyStr(ex.phone) THEN r.phone ELSE ex.phone]

\* A variant of the inner loop that tests only the most recently accepted
\* record.
FirstMatchLastOnly(r, lst) ==
    IF lst # <<>> /\ Matches(r, lst[Len(lst)]) THEN Len(lst) ELSE 0

\* The inner loop `for i, ex in enumerate(out)`: the index of the first
\* accepted record r merges into (the loop breaks there), 0 when none.
FirstMatch(r, lst) ==
    IF \E i \in 1..Len(lst) : Matches(r, lst[i])
    THEN CHOOSE i \in 1..Len(lst) :
            /\ Matches(r, lst[i])
            /\ \A j \in 1..(i - 1) : ~Matches(r, lst[j])
    ELSE 0

\* A variant without the exact-key path.
ExactKeyNever(r, seen) == FALSE

\* if key[0] and key in seen_keys: continue
ExactKeySeen(r, seen) == KeyOf(r)[1] # <<>> /\ KeyOf(r) \in seen

\* The exact-key path with a merge pass: the record fills the gaps of the
\* first accepted record it matches before it is dropped.
DropExactBackfills ==
    /\ pos <= Len(records)
    /\ ExactKeySeen(records[pos], seen_keys)
    /\ out' = IF FirstMatch(records[pos], out) # 0
              THEN [out EXCEPT ![FirstMatch(records[pos], out)] =
                                  MergeInto(@, records[pos])]
              ELSE out
    /\ pos' = pos + 1
    /\ UNCHANGED <<records, seen_keys>>

\* One iteration of the outer loop, the record dropped on its exact key.
DropExact ==
    /\ pos <= Len(records)
    /\ ExactKeySeen(records[pos], seen_keys)
    /\ pos' = pos + 1
    /\ UNCHANGED <<records, out, seen_keys>>

\* One iteration of the outer loop, the record merged into out[i].
MergeRecord ==
    /\ pos <= Len(records)
    /\ ~ExactKeySeen(records[pos], seen_keys)
    /\ FirstMatch(records[pos], out) # 0
    /\ LET i == FirstMatch(records[pos], out)
       IN out' = [out EXCEPT ![i] = MergeInto(out[i], records[pos])]
    /\ pos' = pos + 1
    /\ UNCHANGED <<records, seen_keys>>

\* The record accepted at the head of the output list.
AppendFront ==
    /\ pos <= Len(records)
    /\ ~ExactKeySeen(records[pos], seen_keys)
    /\ FirstMatch(records[pos], out) = 0
    /\ out' = <<records[pos]>> \o out
    /\ seen_keys' = IF KeyOf(records[pos])[1] # <<>>
                    THEN seen_keys \cup {KeyOf(records[pos])}
                    ELSE seen_keys
    /\ pos' = pos + 1
    /\ UNCHANGED records

\* One iteration of the outer loop, the record accepted as a new output.
AppendNew ==
    /\ pos <= Len(records)
    /\ ~ExactKeySeen(records[pos], seen_keys)
    /\ FirstMatch(records[pos], out) = 0
    /\ out' = Append(out, records[pos])
    /\ seen_keys' = IF KeyOf(records[pos])[1] # <<>>
                    THEN seen_keys \cup {KeyOf(records[pos])}
                    ELSE seen_keys
    /\ pos' = pos + 1
    /\ UNCHANGED records

DedupeDone == records # <<>> /\ pos > Len(records)

-----------------------------------------------------------------------------
(* RateLimiter (usa_climbing_gyms.py 75-94, validate_gyms.py 50-77)        *)
(*                                                                         *)
(* Units: a token count is an integer number of 1/UnitsPerToken token and  *)
(* a time an integer number of ticks of 1/TicksPerSec second. With rates   *)
(* of 1 or 2 tokens per second, whole-token requests and whole-tick        *)
(* elapsed times, every product and quotient take() forms is exact.        *)

TokenScale == 1
UnitsPerToken == 2 * TokenScale
TicksPerSec == UnitsPerToken
Rates == {1, 2}

MaxBurst == 2      \* capacities 1..MaxBurst
MaxTakes == 4      \* calls of take() by the single caller
MaxClock == 6      \* the clock is not advanced from outside beyond this
NThreads == 2      \* concurrent callers
CallsPerThread == 1

Min(a, b) == IF a < b THEN a ELSE b
Max(a, b) == IF a > b THEN a ELSE b

\* __init__(rate_per_sec, burst)
NewLimiter(rate, burst, now) ==
    [rate |-> rate,
     capacity |-> burst * UnitsPerToken,
     tokens |-> burst * UnitsPerToken,
     timestamp |-> now,
     request_count |-> 0]

\* The refill without the cap at capacity.
RefillUncapped(l, tokens, elapsed) == tokens + elapsed * l.rate

\* self.tokens = min(self.capacity, self.tokens + elapsed * self.rate)
Refill(l, tokens, elapsed) == Min(l.capacity, tokens + elapsed * l.rate)

\* sleep_for = need / self.rate, in ticks
SleepFor(l, need) == need \div l.rate

\* self.tokens = max(0.0, self.tokens - tokens + sleep_for * self.rate)
AfterSleep(l, tokens, n, sleep_for) == Max(0, tokens - n + sleep_for * l.rate)

\* take(tokens = n) by a single caller, n in whole tokens: the whole call,
\* its sleep included.
Take(n) ==
    /\ rl.rate > 0
    /\ thr = <<>>
    /\ rl.request_count < MaxTakes
    /\ LET nu == n * UnitsPerToken
           elapsed == clock - rl.timestamp
           refilled == Refill(rl, rl.tokens, elapsed)
           need == nu - refilled
           sleep_for == SleepFor(rl, need)
       IN IF refilled < nu
          THEN /\ clock' = clock + sleep_for
               /\ rl' = [rl EXCEPT !.timestamp = clock,
                                   !.tokens = AfterSleep(rl, refilled, nu, sleep_for),
                                   !.request_count = @ + 1]
               /\ obs' = [obs EXCEPT !.requested = @ + nu,
                                     !.slept = @ + sleep_for,
                                     !.last_sleep = sleep_for,
                                     !.last_refilled = refilled,
                                     !.last_n = nu]
          ELSE /\ clock' = clock
               /\ rl' = [rl EXCEPT !.timestamp = clock,
                                   !.tokens = refilled - nu,
                                   !.request_count = @ + 1]
               /\ obs' = [obs EXCEPT !.requested = @ + nu,
                                     !.nosleep = @ + 1,
                                     !.last_sleep = 0,
                                     !.last_refilled = refilled,
                                     !.last_n = nu]
    /\ UNCHANGED thr

\* Time passing between two calls of the single caller.
AdvanceTime(d) ==
    /\ rl.rate > 0
    /\ thr = <<>>
    /\ clock + d <= MaxClock
    /\ clock' = clock + d
    /\ obs' = [obs EXCEPT !.ext = @ + d]
    /\ UNCHANGED <<rl, thr>>

ObsInit ==
    [requested |-> 0, slept |-> 0, ext |-> 0, nosleep |-> 0,
     last_sleep |-> 0, last_refilled |-> 0, last_n |-> 0]

LimiterIdle ==
    /\ rl = NewLimiter(0, 0, 0)
    /\ clock = 0
    /\ thr = <<>>
    /\ obs = ObsInit

InitLimiter ==
    /\ \E rate \in Rates, burst \in 1..MaxBurst : rl = NewLimiter(rate, burst, 0)
    /\ clock = 0
    /\ thr = <<>>
    /\ obs = ObsInit

(* take(1.0) run by concurrent callers. The class holds no lock, so the    *)
(* interpreter may switch threads between any two reads or writes of the   *)
(* limiter's attributes: each step below is one such read or write.        *)

ThreadInit ==
    [pc |-> "start", calls |-> 0, now |-> 0, elapsed |-> 0, tmp |-> 0,
     sleep_for |-> 0, wake |-> 0, slept |-> FALSE]

OneToken == UnitsPerToken

\* now = time.monotonic()                                      (line 62/84)
T_ReadClock(t) ==
    /\ thr[t].pc = "start"
    /\ thr[t].calls < CallsPerThread
    /\ thr' = [thr EXCEPT ![t].pc = "elapsed", ![t].now = clock,
                          ![t].slept = FALSE]
    /\ UNCHANGED <<rl, clock, obs>>

\* elapsed = now - self.timestamp                              (line 63/85)
T_Elapsed(t) ==
    /\ thr[t].pc = "elapsed"
    /\ thr' = [thr EXCEPT ![t].pc = "stamp",
                          ![t].elapsed = thr[t].now - rl.timestamp]
    /\ UNCHANGED <<rl, clock, obs>>

\* self.timestamp = now                                        (line 64/86)
T_Stamp(t) ==
    /\ thr[t].pc = "stamp"
    /\ rl' = [rl EXCEPT !.timestamp = thr[t].now]
    /\ thr' = [thr EXCEPT ![t].pc = "refill_read"]
    /\ UNCHANGED <<clock, obs>>

\* min(self.capacity, self.tokens + elapsed * self.rate): the read
T_RefillRead(t) ==
    /\ thr[t].pc = "refill_read"
    /\ thr' = [thr EXCEPT ![t].pc = "refill_write", ![t].tmp = rl.tokens]
    /\ UNCHANGED <<rl, clock, obs>>

\* self.tokens = ...: the write                                (line 67/87)
T_RefillWrite(t) ==
    /\ thr[t].pc = "refill_write"
    /\ rl' = [rl EXCEPT !.tokens = Refill(rl, thr[t].tmp, thr[t].elapsed)]
    /\ thr' = [thr EXCEPT ![t].pc = "test"]
    /\ UNCHANGED <<clock, obs>>

\* if self.tokens < tokens                                     (line 69/88)
T_Test(t) ==
    /\ thr[t].pc = "test"
    /\ thr' = [thr EXCEPT ![t].pc = IF rl.tokens < OneToken
                                    THEN "need" ELSE "debit_read"]
    /\ UNCHANGED <<rl, clock, obs>>

\* need = tokens - self.tokens; sleep_for = need / self.rate;
\* time.sleep(sleep_for), which raises ValueError on a negative length
\*                                                      (lines 70-72/89-91)
T_Sleep(t) ==
    /\ thr[t].pc = "need"
    /\ LET sleep_for == SleepFor(rl, OneToken - rl.tokens)
       IN thr' = [thr EXCEPT ![t].pc = IF sleep_for < 0 THEN "raised"
                                       ELSE "sleeping",
                             ![t].sleep_for = sleep_for,
                             ![t].wake = clock + sleep_for,
                             ![t].slept = TRUE]
    /\ UNCHANGED <<rl, clock, obs>>

\* time.sleep returns
T_Wake(t) ==
    /\ thr[t].pc = "sleeping"
    /\ clock >= thr[t].wake
    /\ thr' = [thr EXCEPT ![t].pc = "credit_read"]
    /\ UNCHANGED <<rl, clock, obs>>

\* max(0.0, self.tokens - tokens + sleep_for * self.rate): the read
T_CreditRead(t) ==
    /\ thr[t].pc = "credit_read"
    /\ thr' = [thr EXCEPT ![t].pc = "credit_write", ![t].tmp = rl.tokens]
    /\ UNCHANGED <<rl, clock, obs>>

\* self.tokens = ...: the write                                (line 73/92)
T_CreditWrite(t) ==
    /\ thr[t].pc = "credit_write"
    /\ rl' = [rl EXCEPT !.tokens =
                 AfterSleep(rl, thr[t].tmp, OneToken, thr[t].sleep_for)]
    /\ thr' = [thr EXCEPT ![t].pc = "count_read"]
    /\ UNCHANGED <<clock, obs>>

\* self.tokens -= tokens: the read
T_DebitRead(t) ==
    /\ thr[t].pc = "debit_read"
    /\ thr' = [thr EXCEPT ![t].pc = "debit_write", ![t].tmp = rl.tokens]
    /\ UNCHANGED <<rl, clock, obs>>

\* self.tokens -= tokens: the write                            (line 75/94)
T_DebitWrite(t) ==
    /\ thr[t].pc = "debit_write"
    /\ rl' = [rl EXCEPT !.tokens = thr[t].tmp - OneToken]
    /\ thr' = [thr EXCEPT ![t].pc = "count_read"]
    /\ obs' = [obs EXCEPT !.nosleep = @ + 1]
    /\ UNCHANGED clock

\* self.request_count += 1: the read      (validate_gyms.py line 77)
T_CountRead(t) ==
    /\ thr[t].pc = "count_read"
    /\ thr' = [thr EXCEPT ![t].pc = "count_write", ![t].tmp = rl.request_count]
    /\ UNCHANGED <<rl, clock, obs>>

\* self.request_count += 1: the write; take() returns
T_CountWrite(t) ==
    /\ thr[t].pc = "count_write"
    /\ rl' = [rl EXCEPT !.request_count = thr[t].tmp + 1]
    /\ thr' = [thr EXCEPT ![t].pc = "start", ![t].calls = @ + 1]
    /\ obs' = [obs EXCEPT !.requested = @ + OneToken]
    /\ UNCHANGED clock

\* Time passes while some caller sleeps.
Tick ==
    /\ thr # <<>>
    /\ \E t \in DOMAIN thr : thr[t].pc = "sleeping" /\ clock < thr[t].wake
    /\ clock' = clock + 1
    /\ UNCHANGED <<rl, thr, obs>>

InitConcurrent ==
    /\ \E rate \in Rates, burst \in 1..MaxBurst : rl = NewLimiter(rate, burst, 0)
    /\ clock = 0
    /\ thr = [t \in 1..NThreads |-> ThreadInit]
    /\ obs = ObsInit

-----------------------------------------------------------------------------
(* The fetchers: http_request (usa_climbing_gyms.py 105-152) and           *)
(* http_request_with_retry (validate_gyms.py 90-139)                       *)

MaxRetries == 3    \* retry budgets 0..MaxRetries
JitterSteps == 2   \* random.uniform(0, 1.0) is one of 0, 1/JitterSteps, .., 1

\* A response is HTTP 200 with a payload, an HTTP error status with or
\* without a Retry-After header, or a transport-level failure (URLError,
\* timeout, connection reset), which has no status.
OkResponse(p) == [kind |-> "ok", status |-> 200, retry_after |-> None, payload |-> p]
HttpError(st, ra) == [kind |-> "http_error", status |-> st, retry_after |-> ra, payload |-> ""]
TransportFailure == [kind |-> "transport", status |-> 0, retry_after |-> None, payload |-> ""]
NoResponse == [kind |-> "none", status |-> 0, retry_after |-> None, payload |-> ""]

\* Retry-After header values: seconds, zero, a negative number, an HTTP-date.
RetryAfterValues == {<<"7">>, <<"0">>, <<"-", "1">>, <<"W", "e", "d">>}

Responses ==
    {OkResponse(p) : p \in {"p1", "p2"}}
    \cup {HttpError(st, None) : st \in {400, 404, 408, 429, 500, 502, 503, 504}}
    \cup {HttpError(st, Some(ra)) : st \in {429, 503}, ra \in RetryAfterValues}
    \cup {TransportFailure}

DigitValue(c) ==
    CASE c = "0" -> 0 [] c = "1" -> 1 [] c = "2" -> 2 [] c = "3" -> 3
      [] c = "4" -> 4 [] c = "5" -> 5 [] c = "6" -> 6 [] c = "7" -> 7
      [] c = "8" -> 8 [] c = "9" -> 9 [] OTHER -> -1

RECURSIVE DigitsValue(_)
DigitsValue(s) ==
    IF s = <<>> THEN 0
    ELSE 10 * DigitsValue(SubSeq(s, 1, Len(s) - 1)) + DigitValue(s[Len(s)])

IsDigits(s) == s # <<>> /\ \A i \in 1..Len(s) : DigitValue(s[i]) >= 0

\* float(s) for the header values above: Some(number), or None when float
\* raises ValueError.
ParseFloat(s) ==
    IF IsDigits(s) THEN Some(DigitsValue(s))
    ELSE IF s # <<>> /\ s[1] = "-" /\ IsDigits(Tail(s)) THEN Some(-DigitsValue(Tail(s)))
    ELSE None

RECURSIVE Pow2(_)
Pow2(n) == IF n = 0 THEN 1 ELSE 2 * Pow2(n - 1)

\* The errors a call can raise. `at` is the attempt whose response raised it.
HTTPErrorOf(st, a) == [type |-> "HTTPError", code |-> st, at |-> a]
TransportErrorOf(a) == [type |-> "TransportError", code |-> 0, at |-> a]
ValueErrorAt(a) == [type |-> "ValueError", code |-> 0, at |-> a]

ErrorOf(resp, a) ==
    IF resp.kind = "transport" THEN TransportErrorOf(a) ELSE HTTPErrorOf(resp.status, a)

NoError == [type |-> "none", code |-> 0, at |-> 0]

Sleep(src, secs, jit) == [src |-> src, secs |-> secs, jitter |-> jit]

Retry(sl) == [act |-> "retry", sleep |-> sl, err |-> NoError, payload |-> ""]
Raise(e) == [act |-> "raise", sleep |-> Sleep("none", 0, 0), err |-> e, payload |-> ""]
Return(p) == [act |-> "return", sleep |-> Sleep("none", 0, 0), err |-> NoError, payload |-> p]

BackoffCap == 60
\* _backoff_sleep(attempt, retry_after), usa_climbing_gyms.py 96-103
backoff_sleep(a, retry_after, jit) ==
    IF retry_after # None /\ Val(retry_after) > 0
    THEN Sleep("retry_after", Val(retry_after), 0)
    ELSE Sleep("backoff", Min(BackoffCap, Pow2(a)), jit)

\* if status in (408, 429, 500, 502, 503, 504)        usa_climbing_gyms.py 132
RetryableIngest(st) == st \in {408, 429, 500, 502, 503, 504}

\* One iteration of http_request's loop after urlopen answered `resp`:
\* usa_climbing_gyms.py 126-149.
HandleIngest(a, retries, resp, jit) ==
    IF resp.kind = "ok" THEN Return(resp.payload)
    ELSE IF resp.kind = "http_error"
    THEN IF RetryableIngest(resp.status) /\ a < retries
         THEN LET retry_after ==
                      IF resp.retry_after # None
                      THEN ParseFloat(Val(resp.retry_after))   \* except: None
                      ELSE None
              IN Retry(backoff_sleep(a + 1, retry_after, jit))
         ELSE Raise(HTTPErrorOf(resp.status, a))
    ELSE IF a < retries
         THEN Retry(backoff_sleep(a + 1, None, jit))
         ELSE Raise(TransportErrorOf(a))

RateLimitCap == 60
ServerErrorCap == 30
TransportCap == 10

\* elif e.code in (500, 502, 503, 504)                    validate_gyms.py 124
ServerErrorsNo503(st) == st \in {500, 502, 504}
ServerErrors(st) == st \in {500, 502, 503, 504}

\* time.sleep(wait_time) raises ValueError on a negative length.
SleepOrRaise(sl, a) == IF sl.secs < 0 THEN Raise(ValueErrorAt(a)) ELSE Retry(sl)

\* One iteration of http_request_with_retry's loop after urlopen answered
\* `resp`: validate_gyms.py 108-137.
HandleValidate(a, max_retries, resp) ==
    IF resp.kind = "ok" THEN Return(resp.payload)
    ELSE IF resp.kind = "http_error"
    THEN IF resp.status = 429
         THEN IF TruthyStr(resp.retry_after)
                 /\ ParseFloat(Val(resp.retry_after)) = None
              THEN Raise(ValueErrorAt(a))              \* float(retry_after)
              ELSE LET wait ==
                          IF TruthyStr(resp.retry_after)
                          THEN Sleep("retry_after",
                                     Val(ParseFloat(Val(resp.retry_after))), 0)
                          ELSE Sleep("backoff", Min(RateLimitCap, Pow2(a)), 0)
                   IN IF a < max_retries
                      THEN SleepOrRaise(wait, a)
                      ELSE Raise(HTTPErrorOf(429, a))
         ELSE IF ServerErrors(resp.status) /\ a < max_retries
         THEN Retry(Sleep("backoff", Min(ServerErrorCap, Pow2(a)), 0))
         ELSE Raise(HTTPErrorOf(resp.status, a))
    ELSE IF a < max_retries
         THEN Retry(Sleep("backoff", Min(TransportCap, Pow2(a)), 0))
         ELSE Raise(TransportErrorOf(a))

Handle(resp, jit) ==
    IF call.fn = "http_request"
    THEN HandleIngest(attempt, call.retries, resp, jit)
    ELSE HandleValidate(attempt, call.retries, resp)

\* for attempt in range(retries + 1), the call still running
InLoop ==
    /\ call.fn \in {"http_request", "http_request_with_retry"}
    /\ result.kind = "running"
    /\ attempt \in 0..call.retries

\* if rl: rl.take() -- inside the loop of http_request only
TakesOf(fn, has_rl) == IF fn = "http_request" /\ has_rl THEN 1 ELSE 0

\* self.rate_limiter.take(), once, before the API client calls
\* http_request_with_retry: validate_gyms.py 285, 322, 520.
ClientTake ==
    /\ call.fn = "http_request_with_retry"
    /\ result.kind = "pending"
    /\ takes' = takes + 1
    /\ result' = [result EXCEPT !.kind = "running"]
    /\ UNCHANGED <<call, attempt, log, last, backoff>>

Issue(resp) ==
    /\ log' = Append(log, resp.status)
    /\ last' = resp
    /\ takes' = takes + TakesOf(call.fn, call.rl)
    /\ UNCHANGED call

\* An attempt that retries without asking whether budget remains.
AttemptRetriesUnbounded ==
    /\ call.fn \in {"http_request", "http_request_with_retry"}
    /\ result.kind = "running"
    /\ \E resp \in Responses :
          /\ resp.kind # "ok"
          /\ Issue(resp)
          /\ attempt' = attempt + 1
          /\ backoff' = [count |-> backoff.count + 1,
                         sleep |-> Sleep("backoff", 1, 0),
                         resp |-> resp, attempt |-> attempt]
          /\ UNCHANGED result

\* An attempt whose response makes the fetcher sleep and go round again.
AttemptRetries ==
    /\ InLoop
    /\ \E resp \in Responses, jit \in 0..JitterSteps :
          LET h == Handle(resp, jit)
          IN /\ h.act = "retry"
             /\ Issue(resp)
             /\ attempt' = attempt + 1
             /\ backoff' = [count |-> backoff.count + 1, sleep |-> h.sleep,
                            resp |-> resp, attempt |-> attempt]
             /\ UNCHANGED result

\* An attempt whose response the fetcher returns.
AttemptReturns ==
    /\ InLoop
    /\ \E resp \in Responses :
          LET h == Handle(resp, 0)
          IN /\ h.act = "return"
             /\ Issue(resp)
             /\ result' = [kind |-> "returned", payload |-> h.payload, err |-> h.err]
             /\ UNCHANGED <<attempt, backoff>>

\* An attempt that ends the call with an exception.
AttemptRaises ==
    /\ InLoop
    /\ \E resp \in Responses :
          LET h == Handle(resp, 0)
          IN /\ h.act = "raise"
             /\ Issue(resp)
             /\ result' = [kind |-> "raised", payload |-> "", err |-> h.err]
             /\ UNCHANGED <<attempt, backoff>>

NoBackoff ==
    [count |-> 0, sleep |-> Sleep("none", 0, 0), resp |-> NoResponse, attempt |-> 0]

NoResult(k) == [kind |-> k, payload |-> "", err |-> NoError]

FetchIdle ==
    /\ call = [fn |-> "none", retries |-> 0, rl |-> FALSE]
    /\ attempt = 0
    /\ log = <<>>
    /\ last = NoResponse
    /\ backoff = NoBackoff
    /\ takes = 0
    /\ result = NoResult("idle")

\* http_request is called with or without a limiter; the API clients of
\* validate_gyms.py always hold one and take from it before the call.
InitFetch ==
    /\ \E fn \in {"http_request", "http_request_with_retry"},
          m \in 0..MaxRetries, has_rl \in BOOLEAN :
          /\ fn = "http_request_with_retry" => has_rl
          /\ call = [fn |-> fn, retries |-> m, rl |-> has_rl]
          /\ result = NoResult(IF fn = "http_request" THEN "running" ELSE "pending")
    /\ attempt = 0
    /\ log = <<>>
    /\ last = NoResponse
    /\ backoff = NoBackoff
    /\ takes = 0

-----------------------------------------------------------------------------
(* The records dedupe is run on                                            *)

Rec(id, nm, ci, st, la, lo, ph) ==
    [source_id |-> id, name |-> nm, city |-> ci, state |-> st,
     latitude |-> la, longitude |-> lo, phone |-> ph]

LatP == Some(369741)       \* 36.9741
LatNear == Some(369750)    \* about 100 m north of LatP
LatFar == Some(369800)     \* about 656 m north of LatP
Lon0 == Some(-1220308)     \* -122.0308

s_Sum == <<"S", "u", "m">>
s_sum == <<"s", "u", "m">>
s_sumg == <<"s", "u", "m", " ", "g">>
s_Sum_sp == <<" ", "S", "u", "m", " ">>
s_Pk == <<"P", "k">>
s_sc == <<"s", "c">>
s_SC == <<"S", "C">>
s_CA == <<"C", "A">>
s_ca == <<"c", "a">>
s_5 == <<"5">>
s_7 == <<"7">>

\* Every record has latitude and longitude both set or both unset, as the
\* two normalizers produce them.
Pool ==
    { Rec("1", Some(s_Sum), None, None, LatP, Lon0, None),
      Rec("2", Some(s_sumg), Some(s_sc), Some(s_CA), None, None, Some(s_5)),
      Rec("3", Some(s_sum), Some(s_sc), Some(s_CA), LatNear, Lon0, None),
      Rec("4", None, Some(s_sc), Some(s_CA), LatP, Lon0, Some(s_5)),
      Rec("5", Some(s_Pk), Some(s_sc), Some(s_CA), LatP, Lon0, Some(<<>>)),
      Rec("6", Some(s_Sum_sp), Some(s_SC), Some(s_ca), LatFar, Lon0, Some(s_7)),
      Rec("7", Some(<<>>), None, None, None, None, Some(s_7)),
      Rec("8", Some(s_Pk), None, None, None, None, None),
      Rec("9", Some(<<" ">>), Some(s_sc), Some(s_CA), None, None, None),
      \* normalize_usac_item: source_id = f"USAC::{name}", the id of record 8
      Rec("8", Some(s_Pk), Some(s_sc), Some(s_CA), None, None, None) }

\* save_sqlite(path, records) into an empty file: the rows of gyms by
\* source_id. INSERT ... ON CONFLICT(source_id) DO UPDATE replaces the
\* fields of the row that has the source_id by those of the later record.
save_sqlite(recs) ==
    [sid \in {recs[k].source_id : k \in DOMAIN recs} |->
        recs[CHOOSE k \in DOMAIN recs :
                /\ recs[k].source_id = sid
                /\ \A j \in DOMAIN recs : recs[j].source_id = sid => j <= k]]

MaxRecords == 3
MaxSelf == 2

RECURSIVE SeqsUpTo(_, _)
SeqsUpTo(S, n) ==
    IF n = 0 THEN {<<>>}
    ELSE LET shorter == SeqsUpTo(S, n - 1)
         IN shorter \cup {Append(s, x) : s \in shorter, x \in S}

\* The inputs: every sequence of up to MaxRecords records, and every
\* sequence of up to MaxSelf records concatenated with itself.
DedupeInputs ==
    (SeqsUpTo(Pool, MaxRecords) \cup {s \o s : s \in SeqsUpTo(Pool, MaxSelf)})
        \ {<<>>}

DedupeIdle ==
    /\ records = <<>>
    /\ pos = 1
    /\ out = <<>>
    /\ seen_keys = {}

-----------------------------------------------------------------------------
(* validate_gyms.py: the comparison helpers of GooglePlacesAPI             *)

\* Exact fractions n/d in lowest terms stand for the floats the code
\* computes (a similarity is a quotient of two small counts).
RECURSIVE GCD(_, _)
GCD(a, b) == IF b = 0 THEN a ELSE GCD(b, a % b)

Frac(n, d) == <<n \div GCD(n, d), d \div GCD(n, d)>>
FracLT(a, b) == a[1] * b[2] < b[1] * a[2]
FracLE(a, b) == a[1] * b[2] <= b[1] * a[2]
FracMax(a, b) == IF FracLT(a, b) THEN b ELSE a
Zero == Frac(0, 1)
One == Frac(1, 1)
Tenths(n) == Frac(n, 10)

\* \w of the regular expressions, on the characters the model uses.
IsWordChar(c) ==
    c \in {"S", "P", "C", "A", "s", "p", "c", "a", "u", "m", "k", "g",
           "h", "t", "w", "0", "1", "2", "3", "4", "5", "6", "7", "8", "9"}

\* re.findall(r'\w+', s), as a set; cur is the word being read.
RECURSIVE WordsFrom(_, _)
WordsFrom(s, cur) ==
    IF s = <<>> THEN (IF cur = <<>> THEN {} ELSE {cur})
    ELSE IF IsWordChar(Head(s)) THEN WordsFrom(Tail(s), Append(cur, Head(s)))
    ELSE (IF cur = <<>> THEN {} ELSE {cur}) \cup WordsFrom(Tail(s), <<>>)

\* The shared words counted against the words of both strings added up.
string_similarity_halved(s1, s2) ==
    IF s1 = <<>> \/ s2 = <<>> THEN Zero
    ELSE LET words1 == WordsFrom(Lower(s1), <<>>)
             words2 == WordsFrom(Lower(s2), <<>>)
         IN IF words1 = {} \/ words2 = {} THEN Zero
            ELSE Frac(Cardinality(words1 \cap words2),
                      Cardinality(words1) + Cardinality(words2))

\* _string_similarity(s1, s2): validate_gyms.py 444-460
string_similarity(s1, s2) ==
    IF s1 = <<>> \/ s2 = <<>> THEN Zero
    ELSE LET words1 == WordsFrom(Lower(s1), <<>>)
             words2 == WordsFrom(Lower(s2), <<>>)
         IN IF words1 = {} \/ words2 = {} THEN Zero
            ELSE Frac(Cardinality(words1 \cap words2),
                      Cardinality(words1 \cup words2))

\* _normalize_phone(phone): re.sub(r'\D', '', phone)
normalize_phone(phone) == SelectSeq(phone, LAMBDA c : DigitValue(c) >= 0)

HasPrefix(s, pre) == Len(s) >= Len(pre) /\ SubSeq(s, 1, Len(pre)) = pre
DropPrefix(s, pre) == IF HasPrefix(s, pre) THEN SubSeq(s, Len(pre) + 1, Len(s)) ELSE s

RECURSIVE RStripSlash(_)
RStripSlash(s) ==
    IF s # <<>> /\ s[Len(s)] = "/" THEN RStripSlash(SubSeq(s, 1, Len(s) - 1)) ELSE s

\* _normalize_url(url): validate_gyms.py 477-484
normalize_url(url) ==
    LET u1 == Strip(Lower(url))
        u2 == IF HasPrefix(u1, <<"h", "t", "t", "p", "s", ":", "/", "/">>)
              THEN DropPrefix(u1, <<"h", "t", "t", "p", "s", ":", "/", "/">>)
              ELSE DropPrefix(u1, <<"h", "t", "t", "p", ":", "/", "/">>)
        u3 == DropPrefix(u2, <<"w", "w", "w", ".">>)
    IN RStripSlash(u3)

\* sep.join(parts)
RECURSIVE Join(_, _)
Join(sep, parts) ==
    IF parts = <<>> THEN <<>>
    ELSE IF Len(parts) = 1 THEN parts[1]
    ELSE parts[1] \o sep \o Join(sep, Tail(parts))

\* GymRecord.full_address: validate_gyms.py 165-179
full_address(gym) ==
    LET p1 == IF TruthyStr(gym.houseNumber) /\ TruthyStr(gym.street)
              THEN <<Val(gym.houseNumber) \o <<" ">> \o Val(gym.street)>>
              ELSE IF TruthyStr(gym.street) THEN <<Val(gym.street)>> ELSE <<>>
        p2 == IF TruthyStr(gym.city) THEN <<Val(gym.city)>> ELSE <<>>
        p3 == IF TruthyStr(gym.state) THEN <<Val(gym.state)>> ELSE <<>>
        p4 == IF TruthyStr(gym.postcode) THEN <<Val(gym.postcode)>> ELSE <<>>
    IN Join(<<",", " ">>, p1 \o p2 \o p3 \o p4)

EarthRadiusValidateKm == 6371

\* _haversine_km, in metres, on the same footing as haversine_m.
validate_haversine_m(lat1, lon1, lat2, lon2) ==
    (EarthRadiusValidateKm * 22 * (Abs(lat2 - lat1) + Abs(lon2 - lon1))) \div 12600

-----------------------------------------------------------------------------
(* validate_gyms.py: ValidationResult, GooglePlacesAPI._compare_details    *)

\* `a or b` of two Optional[str]
OrStr(a, b) == IF TruthyStr(a) THEN a ELSE b

\* ValidationResult(gym_id, status, confidence, api_source=...) with the
\* defaults of the dataclass; __post_init__ turns changes = None into [].
ValidationResult(gym_id, status, confidence, api_source) ==
    [gym_id |-> gym_id, status |-> status, confidence |-> confidence,
     found_name |-> None, found_address |-> None, found_phone |-> None,
     found_website |-> None, found_latitude |-> None, found_longitude |-> None,
     found_hours |-> None, is_permanently_closed |-> None, changes |-> <<>>,
     error_message |-> None, api_source |-> api_source]

MovedM == 500      \* distance > 0.5
RefinedM == 10     \* distance > 0.01

\* if is_closed: return ...                              validate_gyms.py 346
IsClosedNever(details) == FALSE
IsClosed(details) ==
    details.businessStatus # None /\ Val(details.businessStatus) = "CLOSED_PERMANENTLY"

\* The final status: validate_gyms.py 420-426
StatusOfSwapped(confidence, changes) ==
    IF changes # <<>> THEN "updated"
    ELSE IF FracLT(confidence, Tenths(5)) THEN "not_found"
    ELSE "valid"
StatusOf(confidence, changes) ==
    IF FracLT(confidence, Tenths(5)) THEN "not_found"
    ELSE IF changes # <<>> THEN "updated"
    ELSE "valid"

NameSimilarity(gym, details) ==
    string_similarity(Lower(Val(gym.name)), Lower(Val(details.displayName)))

AddressSimilarity(gym, details) ==
    string_similarity(Lower(full_address(gym)), Lower(Val(details.formattedAddress)))

\* Confidence raised to 1 by found coordinates within RefinedM of the stored.
ConfidenceWithCoordinates(gym, details) ==
    IF /\ TruthyNum(details.latitude) /\ TruthyNum(details.longitude)
       /\ TruthyNum(gym.latitude) /\ TruthyNum(gym.longitude)
       /\ validate_haversine_m(Val(gym.latitude), Val(gym.longitude),
                               Val(details.latitude), Val(details.longitude))
             <= RefinedM
    THEN One
    ELSE IF TruthyStr(details.displayName)
    THEN FracMax(Zero, NameSimilarity(gym, details)) ELSE Zero

\* confidence after the name and the address comparison: 357-359, 365-370
ConfidenceOf(gym, details) ==
    LET c1 == IF TruthyStr(details.displayName)
              THEN FracMax(Zero, NameSimilarity(gym, details)) ELSE Zero
    IN IF TruthyStr(details.formattedAddress) /\ full_address(gym) # <<>>
       THEN FracMax(c1, AddressSimilarity(gym, details)) ELSE c1

NameChanges(gym, details) ==
    IF TruthyStr(details.displayName)
       /\ FracLT(NameSimilarity(gym, details), Tenths(7))
    THEN <<"Name mismatch">> ELSE <<>>

AddressChanges(gym, details) ==
    IF TruthyStr(details.formattedAddress) /\ full_address(gym) # <<>>
    THEN IF FracLT(AddressSimilarity(gym, details), Tenths(7))
         THEN <<"Address changed">> ELSE <<>>
    ELSE IF TruthyStr(details.formattedAddress) /\ full_address(gym) = <<>>
    THEN <<"Address added">> ELSE <<>>

CoordinateChanges(gym, details) ==
    IF TruthyNum(details.latitude) /\ TruthyNum(details.longitude)
    THEN IF TruthyNum(gym.latitude) /\ TruthyNum(gym.longitude)
         THEN LET distance == validate_haversine_m(
                                  Val(gym.latitude), Val(gym.longitude),
                                  Val(details.latitude), Val(details.longitude))
              IN IF distance > MovedM THEN <<"Coordinates updated">>
                 ELSE IF distance > RefinedM THEN <<"Coordinates refined">>
                 ELSE <<>>
         ELSE <<"Coordinates added">>
    ELSE <<>>

FoundPhone(details) ==
    OrStr(details.internationalPhoneNumber, details.nationalPhoneNumber)

PhoneChanges(gym, details) ==
    LET found_phone == FoundPhone(details)
    IN IF TruthyStr(found_phone) /\ TruthyStr(gym.phone)
       THEN IF normalize_phone(Val(found_phone)) # normalize_phone(Val(gym.phone))
            THEN <<"Phone changed">> ELSE <<>>
       ELSE IF TruthyStr(found_phone) THEN <<"Phone added">> ELSE <<>>

WebsiteChanges(gym, details) ==
    IF TruthyStr(details.websiteUri) /\ TruthyStr(gym.website)
    THEN IF normalize_url(Val(details.websiteUri)) # normalize_url(Val(gym.website))
         THEN <<"Website changed">> ELSE <<>>
    ELSE IF TruthyStr(details.websiteUri) THEN <<"Website added">> ELSE <<>>

\* opening_hours = current or regular; its weekdayDescriptions joined by
\* "; " when there are any: 408-414
FoundHours(details) ==
    LET opening_hours == IF details.currentOpeningHours # None
                         THEN details.currentOpeningHours
                         ELSE details.regularOpeningHours
    IN IF opening_hours # None /\ Val(opening_hours) # <<>>
       THEN Some(Join(<<";", " ">>, Val(opening_hours)))
       ELSE None

HoursChanges(gym, details) ==
    IF FoundHours(details) = None THEN <<>>
    ELSE IF ~TruthyStr(gym.hours) THEN <<"Hours added">>
    ELSE IF gym.hours # FoundHours(details) THEN <<"Hours updated">>
    ELSE <<>>

ChangesOf(gym, details) ==
    NameChanges(gym, details) \o AddressChanges(gym, details)
        \o CoordinateChanges(gym, details) \o PhoneChanges(gym, details)
        \o WebsiteChanges(gym, details) \o HoursChanges(gym, details)

\* _compare_details(gym, details): validate_gyms.py 333-442
compare_details(gym, details) ==
    IF IsClosed(details)
    THEN [ValidationResult(gym.id, "closed", One, "google_places")
            EXCEPT !.found_name = details.displayName,
                   !.is_permanently_closed = Some(TRUE)]
    ELSE LET confidence == ConfidenceOf(gym, details)
             changes == ChangesOf(gym, details)
         IN [ValidationResult(gym.id, StatusOf(confidence, changes),
                              confidence, "google_places")
               EXCEPT !.found_name = details.displayName,
                      !.found_address = details.formattedAddress,
                      !.found_phone = FoundPhone(details),
                      !.found_website = details.websiteUri,
                      !.found_latitude = details.latitude,
                      !.found_longitude = details.longitude,
                      !.found_hours = FoundHours(details),
                      !.is_permanently_closed = Some(FALSE),
                      !.changes = changes]

-----------------------------------------------------------------------------
(* The gyms validated and the answers of the search services               *)

s_Sumg == <<"S", "u", "m", " ", "g">>
s_addr == <<"5", " ", "s", "c", ",", " ", "s", "c", ",", " ", "C", "A">>
s_url == <<"h", "t", "t", "p", ":", "/", "/", "w", "w", "w", ".", "s", "c", "/">>
s_urls == <<"h", "t", "t", "p", "s", ":", "/", "/", "s", "c">>
s_m5 == <<"m", " ", "5">>
s_t7 == <<"t", " ", "7">>
s_hours == <<"m", " ", "5", ";", " ", "t", " ", "7">>
s_ph5 == <<"(", "5", ")">>
s_dash == <<"-">>

Gym(id, nm, hn, street, ci, st, ph, web, hrs, la, lo) ==
    [id |-> id, name |-> nm, houseNumber |-> hn, street |-> street,
     city |-> ci, state |-> st, postcode |-> None, phone |-> ph,
     website |-> web, hours |-> hrs, latitude |-> la, longitude |-> lo,
     updatedAt |-> "t0"]

\* A fully populated gym, one with a name only, one without a name, one
\* with city, state and coordinates, one whose name has no word in it.
GymPool ==
    { Gym(1, Some(s_Sumg), Some(s_5), Some(s_sc), Some(s_sc), Some(s_CA),
          Some(s_5), Some(s_url), Some(s_hours), LatP, Lon0),
      Gym(2, Some(s_Pk), None, None, None, None, None, None, None, None, None),
      Gym(3, None, None, None, Some(s_sc), Some(s_CA), None, None, None, None, None),
      Gym(4, Some(s_Sum), None, None, Some(s_sc), Some(s_CA),
          None, None, None, LatFar, Lon0),
      Gym(5, Some(s_dash), None, None, None, None, None, None, None, None, None) }

Details(status, nm, addr, la, lo, intl, natl, web, cur, reg) ==
    [businessStatus |-> status, displayName |-> nm, formattedAddress |-> addr,
     latitude |-> la, longitude |-> lo, internationalPhoneNumber |-> intl,
     nationalPhoneNumber |-> natl, websiteUri |-> web,
     currentOpeningHours |-> cur, regularOpeningHours |-> reg]

\* Place details. currentOpeningHours and regularOpeningHours are the
\* weekdayDescriptions of a non-empty object, or None for an absent one.
\* In order: gym 1 with phone and website written differently; gym 1 to the
\* letter but 100 m away; a permanently closed place; another place; an
\* answer with no field but a temporary closure; gym 2 to the letter; gym 1
\* to the letter, permanently closed; gym 1 to the letter; gym 5 to the
\* letter; a place at the address of gym 1, 100 m from it, with another
\* name and phone.
DetailPool ==
    { Details(None, Some(s_Sumg), Some(s_addr), LatP, Lon0,
              Some(s_ph5), None, Some(s_urls), Some(<<s_m5, s_t7>>), None),
      Details(Some("OPERATIONAL"), Some(s_Sumg), Some(s_addr), LatNear, Lon0,
              None, Some(s_5), Some(s_url), None, Some(<<s_m5, s_t7>>)),
      Details(Some("CLOSED_PERMANENTLY"), Some(s_Pk), Some(s_addr), LatFar, Lon0,
              Some(s_7), None, Some(s_urls), Some(<<s_m5>>), None),
      Details(None, Some(s_Pk), Some(s_sc), LatFar, Lon0,
              None, Some(s_7), Some(s_urls), Some(<<>>), Some(<<s_t7>>)),
      Details(Some("CLOSED_TEMPORARILY"), None, None, None, None,
              None, None, None, None, None),
      Details(None, Some(s_Pk), None, None, None,
              None, None, None, None, None),
      Details(Some("CLOSED_PERMANENTLY"), Some(s_Sumg), Some(s_addr), LatP, Lon0,
              None, Some(s_5), Some(s_url), None, Some(<<s_m5, s_t7>>)),
      Details(Some("OPERATIONAL"), Some(s_Sumg), Some(s_addr), LatP, Lon0,
              None, Some(s_5), Some(s_url), None, Some(<<s_m5, s_t7>>)),
      Details(None, Some(s_dash), None, None, None,
              None, None, None, None, None),
      Details(Some("OPERATIONAL"), Some(s_Pk), Some(s_addr), LatNear, Lon0,
              Some(s_7), None, None, None, None) }

\* First results of a Nominatim search: at gym 1, 656 m from it, and more
\* than 2 km from it.
LatAway == Some(370000)

NominatimPool ==
    { [display_name |-> s_addr, lat |-> Val(LatP), lon |-> Val(Lon0)],
      [display_name |-> s_Pk, lat |-> Val(LatFar), lon |-> Val(Lon0)],
      [display_name |-> s_Sumg, lat |-> Val(LatAway), lon |-> Val(Lon0)] }

-----------------------------------------------------------------------------
(* validate_gyms.py: search_gym of both API clients, validate_gyms          *)

\* What the fetcher (or json.loads) raised, as the text of the exception.
FetchErrors == {"HTTP Error 403: Forbidden", "timed out"}

\* An error outcome that carries no message.
ErrorResultNoMessage(gym, msg, api_source) ==
    ValidationResult(gym.id, "error", Zero, api_source)

ErrorResult(gym, msg, api_source) ==
    [ValidationResult(gym.id, "error", Zero, api_source)
       EXCEPT !.error_message = Some(msg)]

NotFound(gym, api_source) == ValidationResult(gym.id, "not_found", Zero, api_source)

\* results.append(result), on to the next gym
Emit(r) ==
    /\ results' = Append(results, r)
    /\ vpos' = vpos + 1
    /\ vstep' = "locate"
    /\ vplace' = None
    /\ UNCHANGED <<provider, gyms>>

\* One request of search_gym for the current gym, or its comparison, with
\* what came of it.
Event(event, outcome, err, details) ==
    [gym_id |-> gyms[vpos].id, event |-> event, outcome |-> outcome,
     error |-> err, details |-> details]

Logged(event, outcome, err) == vlog' = Append(vlog, Event(event, outcome, err, None))

AtStep(api, step) ==
    /\ provider = api
    /\ vpos <= Len(gyms)
    /\ vstep = step

\* " ".join([gym.name, "climbing gym", ...]) with gym.name = None raises
\* TypeError before any request: 252-258, caught at 240.
G_QueryRaises ==
    /\ AtStep("google", "locate")
    /\ gyms[vpos].name = None
    /\ Emit(ErrorResult(gyms[vpos], "sequence item 0: expected str instance, NoneType found", "google_places"))
    /\ UNCHANGED vlog

\* _text_search: the request fails; the exception is printed and None
\* returned (303-305), which search_gym reads as no place (218-224).
G_LocateFails ==
    /\ AtStep("google", "locate")
    /\ gyms[vpos].name # None
    /\ \E e \in FetchErrors : Logged("locate", "failed", Some(e))
    /\ Emit(NotFound(gyms[vpos], "google_places"))

\* search_gym going on to the detail request without a place.
G_LocateEmptyGoesOn ==
    /\ AtStep("google", "locate")
    /\ gyms[vpos].name # None
    /\ \E outcome \in {"zero", "unnamed"} : Logged("locate", outcome, None)
    /\ vplace' = None
    /\ vstep' = "detail"
    /\ UNCHANGED <<provider, gyms, vpos, results>>

\* _text_search: no places in the answer (295-296), or a first place with
\* neither name nor id (301-302).
G_LocateEmpty ==
    /\ AtStep("google", "locate")
    /\ gyms[vpos].name # None
    /\ \E outcome \in {"zero", "unnamed"} : Logged("locate", outcome, None)
    /\ Emit(NotFound(gyms[vpos], "google_places"))

\* _text_search returns the resource name of the first place.
G_LocateFound ==
    /\ AtStep("google", "locate")
    /\ gyms[vpos].name # None
    /\ Logged("locate", "found", None)
    /\ vplace' = Some("places/1")
    /\ vstep' = "detail"
    /\ UNCHANGED <<provider, gyms, vpos, results>>

\* A failed detail request ending the run with no outcome for the gym.
G_DetailFailsAborts ==
    /\ AtStep("google", "detail")
    /\ \E e \in FetchErrors : Logged("detail", "failed", Some(e))
    /\ vpos' = Len(gyms) + 1
    /\ UNCHANGED <<provider, gyms, vstep, vplace, results>>

\* _get_place_details: the request fails, or the answer is empty; None is
\* returned (328-331) and search_gym reports an error (228-235).
G_DetailFails ==
    /\ AtStep("google", "detail")
    /\ \/ \E e \in FetchErrors : Logged("detail", "failed", Some(e))
       \/ Logged("detail", "empty", None)
    /\ Emit(ErrorResult(gyms[vpos], "Failed to fetch place details", "google_places"))

\* _get_place_details returns the details, _compare_details the result.
G_DetailCompared ==
    /\ AtStep("google", "detail")
    /\ \E d \in DetailPool :
          /\ vlog' = vlog \o <<Event("detail", "found", None, None),
                               Event("compare", "done", None, Some(d))>>
          /\ Emit(compare_details(gyms[vpos], d))

NearM == 500      \* distance < 0.5
FarM == 2000      \* distance > 2.0

\* s.split(",")[0]
RECURSIVE BeforeComma(_)
BeforeComma(s) ==
    IF s = <<>> \/ Head(s) = "," THEN <<>> ELSE <<Head(s)>> \o BeforeComma(Tail(s))

\* NominatimAPI.search_gym on the first search result: 532-562. The result's
\* lat and lon are taken as the numbers float() reads from them.
nominatim_result(gym, hit) ==
    LET has_coords == TruthyNum(gym.latitude) /\ TruthyNum(gym.longitude)
        distance == validate_haversine_m(Val(gym.latitude), Val(gym.longitude),
                                         hit.lat, hit.lon)
        far == has_coords /\ ~(distance < NearM) /\ distance > FarM
        confidence == IF has_coords /\ distance < NearM THEN Tenths(8)
                      ELSE IF far THEN Tenths(3)
                      ELSE Tenths(5)
        changes == IF far THEN <<"Location differs">> ELSE <<>>
        status == IF FracLT(Tenths(6), confidence) /\ changes = <<>>
                  THEN "valid" ELSE "updated"
    IN [ValidationResult(gym.id, status, confidence, "nominatim")
          EXCEPT !.found_name = Some(BeforeComma(hit.display_name)),
                 !.found_latitude = Some(hit.lat),
                 !.found_longitude = Some(hit.lon),
                 !.changes = changes]

\* " ".join(query_parts) with gym.name = None raises TypeError: 498-504,
\* caught at 564.
N_QueryRaises ==
    /\ AtStep("nominatim", "locate")
    /\ gyms[vpos].name = None
    /\ Emit(ErrorResult(gyms[vpos], "sequence item 0: expected str instance, NoneType found", "nominatim"))
    /\ UNCHANGED vlog

\* The search request fails; the exception reaches the handler at 564.
N_SearchFails ==
    /\ AtStep("nominatim", "locate")
    /\ gyms[vpos].name # None
    /\ \E e \in FetchErrors :
          /\ Logged("locate", "failed", Some(e))
          /\ Emit(ErrorResult(gyms[vpos], e, "nominatim"))

\* if not data: 524-530
N_SearchEmpty ==
    /\ AtStep("nominatim", "locate")
    /\ gyms[vpos].name # None
    /\ Logged("locate", "zero", None)
    /\ Emit(NotFound(gyms[vpos], "nominatim"))

N_SearchFound ==
    /\ AtStep("nominatim", "locate")
    /\ gyms[vpos].name # None
    /\ \E hit \in NominatimPool :
          /\ vlog' = vlog \o <<Event("locate", "found", None, None),
                               Event("compare", "done", None, None)>>
          /\ Emit(nominatim_result(gyms[vpos], hit))

ValidateDone == gyms # <<>> /\ vpos > Len(gyms)

ValidateIdle ==
    /\ provider = "none"
    /\ gyms = <<>>
    /\ vpos = 1
    /\ vstep = "locate"
    /\ vplace = None
    /\ results = <<>>
    /\ vlog = <<>>

MaxGyms == 2

\* Every selection of up to MaxGyms gyms of the pool, in id order (ORDER BY
\* id, then gyms[:limit]).
RECURSIVE ById(_)
ById(S) ==
    IF S = {} THEN <<>>
    ELSE LET g == CHOOSE x \in S : \A y \in S : x.id <= y.id
         IN <<g>> \o ById(S \ {g})

InitValidate ==
    /\ provider \in {"google", "nominatim"}
    /\ \E S \in SUBSET GymPool :
          /\ S # {}
          /\ Cardinality(S) <= MaxGyms
          /\ gyms = ById(S)
    /\ vpos = 1
    /\ vstep = "locate"
    /\ vplace = None
    /\ results = <<>>
    /\ vlog = <<>>

-----------------------------------------------------------------------------
(* validate_gyms.py: update_gyms_from_validation                           *)

\* if result.status == "error" or (result.status == "not_found" and
\*    result.confidence < 0.5): continue                              690-691
Skipped(r) ==
    r.status = "error"
    \/ (r.status = "not_found" /\ FracLT(r.confidence, Tenths(5)))

\* No outcome taken as a closure.
ClosureNever(r) == FALSE

\* if result.status == "closed" and result.is_permanently_closed       694
ClosureOf(r) == r.status = "closed" /\ r.is_permanently_closed = Some(TRUE)

\* The floor at 0.5.
AboveHalf(r) == FracLE(Tenths(5), r.confidence)

\* if result.confidence >= 0.6                                          706
AboveFloor(r) == FracLE(Tenths(6), r.confidence)

SetsName(cur, r) ==
    /\ TruthyStr(r.found_name) /\ FracLT(Tenths(8), r.confidence)    \* 721
    /\ (~TruthyStr(cur.name) \/ cur.name # r.found_name)              \* 722

SetsCoords(r) == TruthyNum(r.found_latitude) /\ TruthyNum(r.found_longitude)

\* A field written whenever the found value differs, empty or not.
SetsFieldAlways(cur_v, found_v) == cur_v # found_v

\* `if found:` then `if not current: ... elif current != found: ...`
SetsField(cur_v, found_v) ==
    TruthyStr(found_v) /\ (~TruthyStr(cur_v) \/ cur_v # found_v)

\* f"coordinates: ({current_lat:.6f}, {current_lng:.6f}) -> ..." raises
\* TypeError when a stored coordinate is NULL: 732-733.
FormatRaises(cur, r) ==
    /\ SetsCoords(r)
    /\ (cur.latitude # r.found_latitude \/ cur.longitude # r.found_longitude)
    /\ (cur.latitude = None \/ cur.longitude = None)

\* `if updates:`                                                         768
HasUpdates(cur, r) ==
    \/ SetsName(cur, r)
    \/ SetsCoords(r)
    \/ SetsField(cur.phone, r.found_phone)
    \/ SetsField(cur.website, r.found_website)
    \/ SetsField(cur.hours, r.found_hours)

\* The row after UPDATE gyms SET ... WHERE id = ?: 716-778
UpdatedRow(cur, r) ==
    [cur EXCEPT
       !.name = IF SetsName(cur, r) THEN r.found_name ELSE @,
       !.latitude = IF SetsCoords(r) THEN r.found_latitude ELSE @,
       !.longitude = IF SetsCoords(r) THEN r.found_longitude ELSE @,
       !.phone = IF SetsField(cur.phone, r.found_phone) THEN r.found_phone ELSE @,
       !.website = IF SetsField(cur.website, r.found_website) THEN r.found_website ELSE @,
       !.hours = IF SetsField(cur.hours, r.found_hours) THEN r.found_hours ELSE @,
       !.updatedAt = "now"]

Reconciling == rstate = "running" /\ rpos <= Len(batch)

Advance ==
    /\ rpos' = rpos + 1
    /\ UNCHANGED <<batch, dry_run, durable, rstate>>

\* An outcome of the skip rule written to the gym's row all the same.
R_SkipApplies ==
    /\ Reconciling
    /\ Skipped(batch[rpos])
    /\ db' = IF batch[rpos].gym_id \in DOMAIN db.gyms /\ ~dry_run
             THEN [db EXCEPT !.gyms[batch[rpos].gym_id] =
                                 UpdatedRow(@, batch[rpos])]
             ELSE db
    /\ Advance

\* An outcome the skip rule passes over.
R_Skip ==
    /\ Reconciling
    /\ Skipped(batch[rpos])
    /\ Advance
    /\ UNCHANGED db

\* A closed outcome: INSERT OR REPLACE INTO gym_metadata; the table has no
\* key, so a row is added each time. Nothing is written in a dry run.
R_Close ==
    /\ Reconciling
    /\ ~Skipped(batch[rpos])
    /\ ClosureOf(batch[rpos])
    /\ db' = IF dry_run THEN db
             ELSE [db EXCEPT !.markers = Append(@, batch[rpos].gym_id)]
    /\ Advance

\* An outcome below the confidence floor, or for a gym that has no row.
R_Pass ==
    /\ Reconciling
    /\ ~Skipped(batch[rpos])
    /\ ~ClosureOf(batch[rpos])
    /\ \/ ~AboveFloor(batch[rpos])
       \/ batch[rpos].gym_id \notin DOMAIN db.gyms
    /\ Advance
    /\ UNCHANGED db

\* An outcome at or above the floor, applied to the gym's row.
R_Update ==
    /\ Reconciling
    /\ ~Skipped(batch[rpos])
    /\ ~ClosureOf(batch[rpos])
    /\ AboveFloor(batch[rpos])
    /\ batch[rpos].gym_id \in DOMAIN db.gyms
    /\ LET r == batch[rpos]
           cur == db.gyms[r.gym_id]
       IN /\ ~FormatRaises(cur, r)
          /\ db' = IF HasUpdates(cur, r) /\ ~dry_run
                   THEN [db EXCEPT !.gyms[r.gym_id] = UpdatedRow(cur, r)]
                   ELSE db
    /\ Advance

\* The same, the update reason failing to format: the exception leaves
\* update_gyms_from_validation before commit, and what the connection wrote
\* is rolled back.
R_Abort ==
    /\ Reconciling
    /\ ~Skipped(batch[rpos])
    /\ ~ClosureOf(batch[rpos])
    /\ AboveFloor(batch[rpos])
    /\ batch[rpos].gym_id \in DOMAIN db.gyms
    /\ FormatRaises(db.gyms[batch[rpos].gym_id], batch[rpos])
    /\ db' = durable
    /\ rstate' = "aborted"
    /\ UNCHANGED <<batch, dry_run, rpos, durable>>

\* if not dry_run: conn.commit(); conn.close()                     781-785
R_Finish ==
    /\ rstate = "running"
    /\ rpos > Len(batch)
    /\ rstate' = IF dry_run THEN "closed" ELSE "committed"
    /\ durable' = IF dry_run THEN durable ELSE db
    /\ UNCHANGED <<batch, dry_run, rpos, db>>

EmptyStore == [gyms |-> <<>>, markers |-> <<>>]

ReconcileIdle ==
    /\ batch = <<>>
    /\ dry_run = TRUE
    /\ rpos = 1
    /\ db = EmptyStore
    /\ durable = EmptyStore
    /\ rstate = "idle"

MaxBatch == 2

\* The table gyms holding the gyms of S.
StoreOf(S) ==
    [gyms |-> [id \in {g.id : g \in S} |-> CHOOSE g \in S : g.id = id],
     markers |-> <<>>]

\* The outcomes search_gym of one client can return for a gym.
OutcomesOf(api, g) ==
    IF api = "google"
    THEN IF g.name = None
         THEN {ErrorResult(g, "sequence item 0: expected str instance, NoneType found",
                           "google_places")}
         ELSE {compare_details(g, d) : d \in DetailPool}
              \cup {NotFound(g, "google_places"),
                    ErrorResult(g, "Failed to fetch place details", "google_places")}
    ELSE IF g.name = None
         THEN {ErrorResult(g, "sequence item 0: expected str instance, NoneType found",
                           "nominatim")}
         ELSE {nominatim_result(g, hit) : hit \in NominatimPool}
              \cup {NotFound(g, "nominatim")}
              \cup {ErrorResult(g, e, "nominatim") : e \in FetchErrors}

\* The result lists of a validation run over the gyms gs: one outcome per
\* gym, in order.
RECURSIVE BatchesFor(_, _)
BatchesFor(api, gs) ==
    IF gs = <<>> THEN {<<>>}
    ELSE {<<o>> \o rest : o \in OutcomesOf(api, Head(gs)),
                          rest \in BatchesFor(api, Tail(gs))}

\* The results of a validation run over up to MaxBatch gyms, applied to the
\* table they were loaded from; one row may have been deleted since, and
\* gym_metadata may hold the closure marker an earlier run committed for
\* one of the gyms.
InitReconcile ==
    /\ dry_run \in BOOLEAN
    /\ rpos = 1
    /\ rstate = "running"
    /\ \E S \in SUBSET GymPool :
          /\ S # {}
          /\ Cardinality(S) <= MaxBatch
          /\ \E api \in {"google", "nominatim"} :
                batch \in BatchesFor(api, ById(S))
          /\ \E T \in {S} \cup {S \ {g} : g \in S} :
             \E earlier \in {<<>>} \cup {<<g.id>> : g \in T} :
                /\ db = [StoreOf(T) EXCEPT !.markers = earlier]
                /\ durable = db

InitDedupe ==
    /\ records \in DedupeInputs
    /\ pos = 1
    /\ out = <<>>
    /\ seen_keys = {}
    /\ LimiterIdle
    /\ FetchIdle
    /\ ValidateIdle
    /\ ReconcileIdle

NextDedupe ==
    \/ DropExact /\ UNCHANGED <<lvars, fvars, vvars, rvars>>
    \/ MergeRecord /\ UNCHANGED <<lvars, fvars, vvars, rvars>>
    \/ AppendNew /\ UNCHANGED <<lvars, fvars, vvars, rvars>>

SpecDedupe == InitDedupe /\ [][NextDedupe]_vars

InitSeqLimiter ==
    InitLimiter /\ DedupeIdle /\ FetchIdle /\ ValidateIdle /\ ReconcileIdle

NextSeqLimiter ==
    \/ \E n \in 1..2 : Take(n) /\ UNCHANGED <<dvars, fvars, vvars, rvars>>
    \/ \E d \in 1..2 : AdvanceTime(d) /\ UNCHANGED <<dvars, fvars, vvars, rvars>>

SpecLimiter == InitSeqLimiter /\ [][NextSeqLimiter]_vars

InitConc ==
    InitConcurrent /\ DedupeIdle /\ FetchIdle /\ ValidateIdle /\ ReconcileIdle

NextConc ==
    \/ Tick /\ UNCHANGED <<dvars, fvars, vvars, rvars>>
    \/ \E t \in DOMAIN thr : T_ReadClock(t) /\ UNCHANGED <<dvars, fvars, vvars, rvars>>
    \/ \E t \in DOMAIN thr : T_Elapsed(t) /\ UNCHANGED <<dvars, fvars, vvars, rvars>>
    \/ \E t \in DOMAIN thr : T_Stamp(t) /\ UNCHANGED <<dvars, fvars, vvars, rvars>>
    \/ \E t \in DOMAIN thr : T_RefillRead(t) /\ UNCHANGED <<dvars, fvars, vvars, rvars>>
    \/ \E t \in DOMAIN thr : T_RefillWrite(t) /\ UNCHANGED <<dvars, fvars, vvars, rvars>>
    \/ \E t \in DOMAIN thr : T_Test(t) /\ UNCHANGED <<dvars, fvars, vvars, rvars>>
    \/ \E t \in DOMAIN thr : T_Sleep(t) /\ UNCHANGED <<dvars, fvars, vvars, rvars>>
    \/ \E t \in DOMAIN thr : T_Wake(t) /\ UNCHANGED <<dvars, fvars, vvars, rvars>>
    \/ \E t \in DOMAIN thr : T_CreditRead(t) /\ UNCHANGED <<dvars, fvars, vvars, rvars>>
    \/ \E t \in DOMAIN thr : T_CreditWrite(t) /\ UNCHANGED <<dvars, fvars, vvars, rvars>>
    \/ \E t \in DOMAIN thr : T_DebitRead(t) /\ UNCHANGED <<dvars, fvars, vvars, rvars>>
    \/ \E t \in DOMAIN thr : T_DebitWrite(t) /\ UNCHANGED <<dvars, fvars, vvars, rvars>>
    \/ \E t \in DOMAIN thr : T_CountRead(t) /\ UNCHANGED <<dvars, fvars, vvars, rvars>>
    \/ \E t \in DOMAIN thr : T_CountWrite(t) /\ UNCHANGED <<dvars, fvars, vvars, rvars>>

SpecConcurrent == InitConc /\ [][NextConc]_vars

InitFetcher ==
    InitFetch /\ DedupeIdle /\ LimiterIdle /\ ValidateIdle /\ ReconcileIdle

NextFetch ==
    \/ ClientTake /\ UNCHANGED <<dvars, lvars, vvars, rvars>>
    \/ AttemptRetries /\ UNCHANGED <<dvars, lvars, vvars, rvars>>
    \/ AttemptReturns /\ UNCHANGED <<dvars, lvars, vvars, rvars>>
    \/ AttemptRaises /\ UNCHANGED <<dvars, lvars, vvars, rvars>>

SpecFetch == InitFetcher /\ [][NextFetch]_vars

InitValidator ==
    InitValidate /\ DedupeIdle /\ LimiterIdle /\ FetchIdle /\ ReconcileIdle

NextValidate ==
    \/ G_QueryRaises /\ UNCHANGED <<dvars, lvars, fvars, rvars>>
    \/ G_LocateFails /\ UNCHANGED <<dvars, lvars, fvars, rvars>>
    \/ G_LocateEmpty /\ UNCHANGED <<dvars, lvars, fvars, rvars>>
    \/ G_LocateFound /\ UNCHANGED <<dvars, lvars, fvars, rvars>>
    \/ G_DetailFails /\ UNCHANGED <<dvars, lvars, fvars, rvars>>
    \/ G_DetailCompared /\ UNCHANGED <<dvars, lvars, fvars, rvars>>
    \/ N_QueryRaises /\ UNCHANGED <<dvars, lvars, fvars, rvars>>
    \/ N_SearchFails /\ UNCHANGED <<dvars, lvars, fvars, rvars>>
    \/ N_SearchEmpty /\ UNCHANGED <<dvars, lvars, fvars, rvars>>
    \/ N_SearchFound /\ UNCHANGED <<dvars, lvars, fvars, rvars>>

SpecValidate == InitValidator /\ [][NextValidate]_vars

InitReconciler ==
    InitReconcile /\ DedupeIdle /\ LimiterIdle /\ FetchIdle /\ ValidateIdle

NextReconcile ==
    \/ R_Skip /\ UNCHANGED <<dvars, lvars, fvars, vvars>>
    \/ R_Close /\ UNCHANGED <<dvars, lvars, fvars, vvars>>
    \/ R_Pass /\ UNCHANGED <<dvars, lvars, fvars, vvars>>
    \/ R_Update /\ UNCHANGED <<dvars, lvars, fvars, vvars>>
    \/ R_Abort /\ UNCHANGED <<dvars, lvars, fvars, vvars>>
    \/ R_Finish /\ UNCHANGED <<dvars, lvars, fvars, vvars>>

SpecReconcile == InitReconciler /\ [][NextReconcile]_vars

\* The store over its life: gyms come out of dedupe, and stored gyms are
\* updated by the reconciler.
InitStore == InitDedupe \/ InitReconciler

NextStore ==
    \/ DropExact /\ UNCHANGED <<lvars, fvars, vvars, rvars>>
    \/ MergeRecord /\ UNCHANGED <<lvars, fvars, vvars, rvars>>
    \/ AppendNew /\ UNCHANGED <<lvars, fvars, vvars, rvars>>
    \/ R_Skip /\ UNCHANGED <<dvars, lvars, fvars, vvars>>
    \/ R_Close /\ UNCHANGED <<dvars, lvars, fvars, vvars>>
    \/ R_Pass /\ UNCHANGED <<dvars, lvars, fvars, vvars>>
    \/ R_Update /\ UNCHANGED <<dvars, lvars, fvars, vvars>>
    \/ R_Abort /\ UNCHANGED <<dvars, lvars, fvars, vvars>>
    \/ R_Finish /\ UNCHANGED <<dvars, lvars, fvars, vvars>>

SpecStore == InitStore /\ [][NextStore]_vars

-----------------------------------------------------------------------------
(* Merge Engine properties                                                 *)

HasCoords(r) == r.latitude # None /\ r.longitude # None

\* "The same gym" under the matching policy, for two named records: both
\* carry coordinates, lie within 0.25 km and have substring-compatible
\* names; or one lacks coordinates, the names are substring-compatible and
\* the normalized city and state are equal.
SameGym(a, b) ==
    /\ TruthyStr(a.name) /\ TruthyStr(b.name)
    /\ NameCompat(a, b)
    /\ IF HasCoords(a) /\ HasCoords(b)
       THEN haversine_m(Val(a.latitude), Val(a.longitude),
                        Val(b.latitude), Val(b.longitude)) <= MergeRadiusM
       ELSE norm(a.city) = norm(b.city) /\ norm(a.state) = norm(b.state)

\* C1 as stated: when dedupe has returned, no two output records are the
\* same gym under the matching policy evaluated on their final field values.
C1_NoTwoAlikeFinal ==
    DedupeDone =>
        \A i, j \in 1..Len(out) : i < j => ~SameGym(out[i], out[j])

\* C1 as amended: a record is accepted as a new output record only if, on
\* the field values the accepted records have at that moment, it is the same
\* gym as none of them.
C1_AcceptedUnmatched ==
    [][Len(out') = Len(out) + 1 =>
          \A i \in 1..Len(out) : ~SameGym(records[pos], out[i])]_vars

\* C1's case: three records in, two out, the first output record gap-filled
\* by a merge.
C1_Witness ==
    /\ DedupeDone
    /\ Len(records) = 3
    /\ Len(out) = 2
    /\ out[1] \notin Pool

IsSelfConcat(s) ==
    /\ Len(s) % 2 = 0
    /\ Len(s) > 0
    /\ SubSeq(s, 1, Len(s) \div 2) = SubSeq(s, Len(s) \div 2 + 1, Len(s))

FirstHalf(s) == SubSeq(s, 1, Len(s) \div 2)

\* No two records of S match under the merge policy: neither the exact key
\* (with a non-empty name) nor the spatial or attribute rule.
NoTwoAlike(S) ==
    \A i, j \in 1..Len(S) :
        i < j =>
            /\ ~SameGym(S[i], S[j])
            /\ ~Matches(S[i], S[j])
            /\ ~Matches(S[j], S[i])
            /\ ~(KeyOf(S[i])[1] # <<>> /\ KeyOf(S[i]) = KeyOf(S[j]))

AllNamed(S) == \A i \in 1..Len(S) : TruthyStr(S[i].name)

SameKeyNamed(a, b) == KeyOf(a)[1] # <<>> /\ KeyOf(a) = KeyOf(b)

ExactKeyPair ==
    /\ DedupeDone
    /\ Len(records) = 2
    /\ SameKeyNamed(records[1], records[2])

\* Every field empty on a and non-empty on b has b's value on e.
FilledFrom(e, a, b) ==
    /\ (IsEmptyStr(a.name) /\ ~IsEmptyStr(b.name)) => e.name = b.name
    /\ (IsEmptyStr(a.city) /\ ~IsEmptyStr(b.city)) => e.city = b.city
    /\ (IsEmptyStr(a.state) /\ ~IsEmptyStr(b.state)) => e.state = b.state
    /\ (IsEmptyStr(a.phone) /\ ~IsEmptyStr(b.phone)) => e.phone = b.phone
    /\ (IsEmptyNum(a.latitude) /\ ~IsEmptyNum(b.latitude)) => e.latitude = b.latitude
    /\ (IsEmptyNum(a.longitude) /\ ~IsEmptyNum(b.longitude)) => e.longitude = b.longitude

\* C11 as stated: two records with the same normalized (name, city, state)
\* and a non-empty name come out as exactly one record, which holds the
\* union of their non-conflicting fields: every field empty on the first and
\* non-empty on the second is filled from the second.
C11_ExactKeyUnion ==
    ExactKeyPair =>
        /\ Len(out) = 1
        /\ FilledFrom(out[1], records[1], records[2])

\* C11 as amended: two such records come out as exactly one record, the
\* first-seen one as it is; the second is dropped without a merge.
C11_ExactKeyFirstWins == ExactKeyPair => out = <<records[1]>>

\* C11's case: the second record has a phone, the first has none.
C11_Witness ==
    /\ ExactKeyPair
    /\ records[1].source_id # records[2].source_id
    /\ IsEmptyStr(records[1].phone)
    /\ ~IsEmptyStr(records[2].phone)
    /\ out = <<records[1]>>

\* Every field populated on e has the same value on e2.
PopulatedKept(e, e2) ==
    /\ e2.source_id = e.source_id
    /\ ~IsEmptyStr(e.name) => e2.name = e.name
    /\ ~IsEmptyStr(e.city) => e2.city = e.city
    /\ ~IsEmptyStr(e.state) => e2.state = e.state
    /\ ~IsEmptyStr(e.phone) => e2.phone = e.phone
    /\ ~IsEmptyNum(e.latitude) => e2.latitude = e.latitude
    /\ ~IsEmptyNum(e.longitude) => e2.longitude = e.longitude

\* C12: no step of dedupe changes a populated field of an accepted record;
\* a field populated when the record was accepted (or filled since) keeps
\* its value to the end, and only empty fields are ever filled.
C12_NeverOverwrite ==
    [][\A i \in 1..Len(out) :
          /\ i <= Len(out')
          /\ PopulatedKept(out[i], out'[i])]_vars

\* C12's case: a record with a different name and source was merged into the
\* first; the first kept both and had its city filled.
C12_Witness ==
    /\ DedupeDone
    /\ Len(records) = 2
    /\ Len(out) = 1
    /\ ~IsEmptyStr(records[2].name)
    /\ records[2].name # records[1].name
    /\ out[1].name = records[1].name
    /\ out[1].source_id = records[1].source_id
    /\ IsEmptyStr(records[1].city)
    /\ out[1].city = records[2].city
    /\ ~IsEmptyStr(out[1].city)

DistM(a, b) ==
    haversine_m(Val(a.latitude), Val(a.longitude), Val(b.latitude), Val(b.longitude))

BothNamedWithCoords(a, b) ==
    /\ TruthyStr(a.name) /\ TruthyStr(b.name)
    /\ HasCoords(a) /\ HasCoords(b)

\* C13: for the incoming named record r and every accepted named record e
\* that both carry coordinates: if they lie within 0.25 km and one
\* normalized name contains the other, r is merged into e (e being the
\* first accepted record r matches, and r not dropped on its exact key);
\* if they lie further apart or the names are not compatible, r is not
\* merged into e, and when that holds of every accepted record r becomes a
\* new output record.
C13_SpatialMatch ==
    [][pos <= Len(records) =>
          LET r == records[pos]
              dropped == ExactKeySeen(r, seen_keys)
              spatial(i) == /\ DistM(r, out[i]) <= MergeRadiusM
                            /\ NameCompat(r, out[i])
          IN /\ \A i \in 1..Len(out) :
                   BothNamedWithCoords(r, out[i]) =>
                     /\ (/\ spatial(i)
                         /\ ~dropped
                         /\ \A j \in 1..(i - 1) : ~SameGym(r, out[j]))
                        => out' = [out EXCEPT ![i] = MergeInto(out[i], r)]
                     /\ ~spatial(i) => out'[i] = out[i]
             /\ (/\ ~dropped
                 /\ \A i \in 1..Len(out) :
                       BothNamedWithCoords(r, out[i]) /\ ~spatial(i))
                => out' = Append(out, r)]_vars

\* C13's case: of three named records with coordinates, the second lies
\* within 0.25 km of the first with a compatible name and was merged into
\* it; the third lies within 0.25 km too but has an incompatible name and
\* was not.
C13_Witness ==
    /\ DedupeDone
    /\ Len(records) = 3
    /\ BothNamedWithCoords(records[1], records[2])
    /\ BothNamedWithCoords(records[1], records[3])
    /\ DistM(records[1], records[2]) <= MergeRadiusM
    /\ DistM(records[1], records[2]) > 0
    /\ DistM(records[1], records[3]) <= MergeRadiusM
    /\ ~NameCompat(records[1], records[3])
    /\ ~NameCompat(records[2], records[3])
    /\ out = <<MergeInto(records[1], records[2]), records[3]>>
    /\ out[1] # records[1]

-----------------------------------------------------------------------------
(* Rate Limiter properties                                                 *)

\* Every call so far was take(1).
OnlyUnitTakes == obs.requested = rl.request_count * UnitsPerToken

\* C3: from a full bucket of capacity C and rate R, with time advancing only
\* through the limiter's own sleeps, N sequential take(1) calls complete no
\* earlier than max(0, (N - C) / R) seconds after the first call starts:
\* clock / TicksPerSec >= (N - C) / R.
C3_RateBound ==
    (rl.rate > 0 /\ thr = <<>> /\ obs.ext = 0 /\ OnlyUnitTakes)
        => clock * rl.rate * UnitsPerToken
              >= (rl.request_count * UnitsPerToken - rl.capacity) * TicksPerSec

\* C4: under any interleaving of concurrent callers of take(1) admission is
\* serialized: the token count stays in [0, capacity], and the callers
\* admitted without sleeping never outnumber the tokens that were available
\* (the initial burst plus what the elapsed time refilled).
C4_SerializedAdmission ==
    thr # <<>> =>
        /\ rl.tokens >= 0
        /\ rl.tokens <= rl.capacity
        /\ obs.nosleep * UnitsPerToken <= rl.capacity + clock * rl.rate

-----------------------------------------------------------------------------
(* Resilient Fetcher properties                                            *)

Called == call.fn \in {"http_request", "http_request_with_retry"}

Finished == result.kind \in {"returned", "raised"}

IsPrefix(a, b) == Len(a) <= Len(b) /\ a = SubSeq(b, 1, Len(a))

\* C5: given the canned responses 429, 503, 200 (bare statuses, no
\* Retry-After header) and a budget of at least two retries, each fetcher
\* stops only after the third attempt and returns the payload of the 200
\* response; given 400 it raises that error after exactly one attempt,
\* having slept for no backoff.
C5_CannedResponses ==
    Called =>
      /\ (/\ IsPrefix(log, <<429, 503, 200>>)
          /\ call.retries >= 2
          /\ last.retry_after = None)
         => /\ Finished <=> Len(log) = 3
            /\ Finished => /\ result.kind = "returned"
                           /\ result.payload = last.payload
                           /\ last.status = 200
      /\ (log # <<>> /\ log[1] = 400)
         => /\ log = <<400>>
            /\ result.kind = "raised"
            /\ result.err = HTTPErrorOf(400, 0)
            /\ backoff.count = 0

C5_Witness ==
    /\ call.fn = "http_request_with_retry"
    /\ log = <<429, 503, 200>>
    /\ result.kind = "returned"
    /\ result.payload = "p2"
    /\ backoff.count = 2

ClaimedRetryable(resp) ==
    resp.kind = "transport"
    \/ (resp.kind = "http_error" /\ resp.status \in {429, 408, 500, 502, 503, 504})

\* C6: in both fetchers, while budget remains, the call goes on to another
\* attempt if and only if the attempt just made failed with HTTP 429, 408,
\* 500, 502, 503 or 504 or at transport level; any other HTTP error status
\* is raised on the attempt that received it.  (Stated for responses that
\* carry no Retry-After header.)
C6_RetryIff ==
    (Called /\ log # <<>> /\ Len(log) <= call.retries /\ last.retry_after = None)
    => /\ result.kind = "running" <=> ClaimedRetryable(last)
       /\ (last.kind = "http_error" /\ ~ClaimedRetryable(last))
          => /\ result.kind = "raised"
             /\ result.err = HTTPErrorOf(last.status, Len(log) - 1)

\* C7 (as stated): a request configured with max_retries = m never issues
\* more than m attempts.
C7_AtMostRetries == Called => Len(log) <= call.retries

\* C7 (amended): a request configured with max_retries = m never issues more
\* than m + 1 attempts, the first one and m retries.
C7_AtMostRetriesPlusOne == Called => Len(log) <= call.retries + 1

C7_Witness ==
    /\ Called
    /\ call.retries >= 2
    /\ Len(log) = call.retries + 1
    /\ result.kind = "raised"

\* C8: a call never stays running once its attempts are used up, and when
\* the last allowed attempt has failed the call has raised the error of that
\* attempt: it has not returned, and has raised no other error.
C8_LastErrorSurfaced ==
    Called =>
      /\ result.kind = "running" => Len(log) <= call.retries
      /\ (Len(log) = call.retries + 1 /\ last.kind # "ok")
         => /\ result.kind = "raised"
            /\ result.err = ErrorOf(last, call.retries)

\* C9: when a rate limiter is in use, a finished logical request has called
\* take() exactly once per HTTP attempt it issued, in the ingestion path and
\* in the validation path.
C9_TokenPerAttempt ==
    (Called /\ call.rl /\ Finished) => takes = Len(log)

ClaimedCap == IF call.fn = "http_request" THEN 60 ELSE 30

\* C10: the sleep before a retry is exactly the Retry-After of the failed
\* response when it carries one, whatever the retryable status; otherwise it
\* is min(cap, 2^attempt) plus a jitter in [0,1], cap 60 for http_request and
\* 30 for http_request_with_retry.  (A header that is no positive number of
\* seconds may be honoured or not; 2^attempt may count attempts from 0 or
\* from 1.)
C10_BackoffPolicy ==
    (Called /\ backoff.count > 0) =>
      LET r == backoff.resp
          a == backoff.attempt
          sl == backoff.sleep
          cool == IF r.retry_after = None THEN None
                  ELSE ParseFloat(Val(r.retry_after))
          exact == cool # None /\ sl.secs = Val(cool) /\ sl.jitter = 0
          expo == /\ sl.secs \in {Min(ClaimedCap, Pow2(a)), Min(ClaimedCap, Pow2(a + 1))}
                  /\ sl.jitter \in 0..JitterSteps
      IN IF cool # None /\ Val(cool) > 0 THEN exact
         ELSE exact \/ expo

-----------------------------------------------------------------------------
(* Validator properties                                                    *)

\* The requests and comparisons made for the gym at position i.
EventsOf(i) == SelectSeq(vlog, LAMBDA e : e.gym_id = gyms[i].id)

\* The gym at position i was compared with the place details d.
Compared(i, d) ==
    \E k \in 1..Len(vlog) :
        /\ vlog[k].gym_id = gyms[i].id
        /\ vlog[k].event = "compare"
        /\ vlog[k].details = Some(d)

ZeroResults(i) ==
    \E k \in 1..Len(EventsOf(i)) :
        EventsOf(i)[k].event = "locate" /\ EventsOf(i)[k].outcome = "zero"

\* C14: a gym whose Locate search returned zero results has the outcome
\* not_found with confidence 0, and the search is all that was done for
\* it: no detail request and no comparison.
C14_ZeroResultsTerminal ==
    \A i \in 1..Len(gyms) :
        ZeroResults(i) =>
            /\ i <= Len(results)
            /\ results[i].status = "not_found"
            /\ results[i].confidence = Zero
            /\ Len(EventsOf(i)) = 1

\* Zero results for the first of two gyms under either provider, the
\* second gym found and compared.
C14_Witness ==
    /\ ValidateDone
    /\ Len(gyms) = 2
    /\ ZeroResults(1)
    /\ results[1].status = "not_found"
    /\ \E k \in 1..Len(EventsOf(2)) : EventsOf(2)[k].event = "compare"

\* C15: a comparison with details whose business status is
\* CLOSED_PERMANENTLY gives status closed, confidence 1.0, the
\* permanently-closed flag and no change notes, whatever the other fields.
C15_ClosedShortCircuit ==
    \A i \in 1..Len(gyms) : \A d \in DetailPool :
        (Compared(i, d) /\ d.businessStatus = Some("CLOSED_PERMANENTLY")) =>
            /\ i <= Len(results)
            /\ results[i].status = "closed"
            /\ results[i].confidence = One
            /\ results[i].is_permanently_closed = Some(TRUE)
            /\ results[i].changes = <<>>

\* A closed place that differs from the stored gym in name, address and
\* coordinates.
C15_Witness ==
    /\ ValidateDone
    /\ \E i \in 1..Len(gyms) : \E d \in DetailPool :
          /\ Compared(i, d)
          /\ d.businessStatus = Some("CLOSED_PERMANENTLY")
          /\ d.displayName # gyms[i].name
          /\ d.latitude # gyms[i].latitude
          /\ results[i].status = "closed"

\* The stored gym and the found details carry the same name, address,
\* phone, website and hours, to the letter (an absent address reads as the
\* empty address of the gym).
IdenticalFields(gym, d) ==
    /\ d.displayName = gym.name
    /\ (IF d.formattedAddress = None THEN <<>> ELSE Val(d.formattedAddress))
          = full_address(gym)
    /\ FoundPhone(d) = gym.phone
    /\ d.websiteUri = gym.website
    /\ FoundHours(d) = gym.hours

IsValidOutcome(r) ==
    /\ r.status = "valid"
    /\ FracLE(Tenths(7), r.confidence)
    /\ r.changes = <<>>

CoordinatesAgree(gym, d) ==
    \/ ~(TruthyNum(d.latitude) /\ TruthyNum(d.longitude))
    \/ /\ TruthyNum(gym.latitude) /\ TruthyNum(gym.longitude)
       /\ validate_haversine_m(Val(gym.latitude), Val(gym.longitude),
                               Val(d.latitude), Val(d.longitude)) <= RefinedM

HasWord(name) == name # None /\ WordsFrom(Lower(Val(name)), <<>>) # {}

C17_StatusFromConfidenceAndChanges ==
    \A i \in 1..Len(gyms) : \A d \in DetailPool :
        (Compared(i, d) /\ d.businessStatus # Some("CLOSED_PERMANENTLY")) =>
            /\ i <= Len(results)
            /\ results[i].status =
                  IF FracLT(results[i].confidence, Tenths(5)) THEN "not_found"
                  ELSE IF Len(results[i].changes) > 0 THEN "updated"
                  ELSE "valid"

\* The three cases in one run or another: here a not_found outcome that
\* has change notes, next to an updated one.
C17_Witness ==
    /\ ValidateDone
    /\ Len(gyms) = 2
    /\ \E d \in DetailPool : Compared(1, d)
    /\ \E d \in DetailPool : Compared(2, d)
    /\ results[1].status = "not_found" /\ results[1].changes # <<>>
    /\ results[2].status = "updated"
    /\ FracLT(Zero, results[1].confidence)

\* A request made for the gym at position i failed.
RequestFailed(i) ==
    \E k \in 1..Len(EventsOf(i)) : EventsOf(i)[k].outcome = "failed"

\* C18: a request failure in the Locate call or in the Detail call gives an
\* outcome with status error and confidence 0 for that gym.
C18_FailureGivesError ==
    \A i \in 1..Len(gyms) :
        RequestFailed(i) =>
            /\ i <= Len(results)
            /\ results[i].status = "error"
            /\ results[i].confidence = Zero

\* C19: the outcomes emitted so far are those of the gyms before the
\* current one, one each and in load order, each carrying the id of its
\* gym; while a gym is left the run can go on, and it ends with an outcome
\* for every gym.
C19_OneOutcomePerGym ==
    /\ Len(results) = vpos - 1
    /\ vpos <= Len(gyms) + 1
    /\ \A i \in 1..Len(results) : results[i].gym_id = gyms[i].id
    /\ (vpos <= Len(gyms) => ENABLED NextValidate)
    /\ (ValidateDone => Len(results) = Len(gyms))

\* A run over two gyms, a request failure for the first and a comparison
\* for the second.
C19_Witness ==
    /\ ValidateDone
    /\ Len(gyms) = 2
    /\ RequestFailed(1)
    /\ results[1].status = "error"
    /\ results[2].status \in {"valid", "updated"}
    /\ results[2].gym_id = gyms[2].id

-----------------------------------------------------------------------------
(* Reconciler properties                                                   *)

\* C20: the step that handles an outcome with status error, or with status
\* not_found and confidence below 0.5, changes no gym row and adds no
\* closure marker, in the connection or in the stored file.
C20_SkipRule ==
    [][(/\ rstate = "running"
        /\ rpos <= Len(batch)
        /\ \/ batch[rpos].status = "error"
           \/ /\ batch[rpos].status = "not_found"
              /\ FracLT(batch[rpos].confidence, Tenths(5)))
       => (db' = db /\ durable' = durable)]_vars

\* A committed run of two outcomes: a not_found outcome of confidence below
\* 0.5 that found a phone the gym's row lacks, then an outcome applied to
\* another gym; the first gym's row is as it was and no marker exists.
C20_Witness ==
    /\ rstate = "committed"
    /\ Len(batch) = 2
    /\ batch[1].status = "not_found"
    /\ FracLT(Zero, batch[1].confidence)
    /\ batch[1].found_phone # None
    /\ batch[1].gym_id \in DOMAIN db.gyms
    /\ batch[2].gym_id \in DOMAIN db.gyms
    /\ batch[2].gym_id # batch[1].gym_id
    /\ db.gyms[batch[1].gym_id].phone # batch[1].found_phone
    /\ db.gyms[batch[1].gym_id].updatedAt = "t0"
    /\ db.gyms[batch[2].gym_id].updatedAt = "now"
    /\ db.markers = <<>>
    /\ durable = db

\* The outcome being handled.
Handling(status) ==
    /\ rstate = "running"
    /\ rpos <= Len(batch)
    /\ batch[rpos].status = status

\* The closure markers stored for gym id.
MarkersOf(store, id) == Len(SelectSeq(store.markers, LAMBDA m : m = id))

\* C21: outside a dry run the step that handles a closed outcome adds a
\* closure marker for the outcome's gym id and leaves every gym row as it
\* was; once the run has committed the stored file holds a marker for every
\* closed outcome of the batch.
C21_ClosedMarksOnly ==
    /\ [][(Handling("closed") /\ ~dry_run)
          => /\ db'.gyms = db.gyms
             /\ db'.markers = Append(db.markers, batch[rpos].gym_id)]_vars
    /\ [](rstate = "committed" =>
            \A i \in 1..Len(batch) :
                batch[i].status = "closed" =>
                    /\ MarkersOf(durable, batch[i].gym_id) >= 1
                    /\ \A id \in DOMAIN durable.gyms :
                          id = batch[i].gym_id => durable.gyms[id].updatedAt = "t0")

\* A committed run of one closed outcome that found another name than the
\* stored one: one marker, the row untouched.
C21_Witness ==
    /\ rstate = "committed"
    /\ Len(batch) = 1
    /\ batch[1].status = "closed"
    /\ batch[1].gym_id \in DOMAIN durable.gyms
    /\ batch[1].found_name # None
    /\ durable.gyms[batch[1].gym_id].name # batch[1].found_name
    /\ durable.gyms[batch[1].gym_id].updatedAt = "t0"
    /\ durable.markers = <<batch[1].gym_id>>

\* C22: a step that handles an outcome which is not closed and has
\* confidence below 0.6 changes nothing in the store; and a step of a run
\* that goes on changes the stored name of a gym only if the gym is the
\* outcome's, the confidence is above 0.8 and the found name is non-empty
\* and differs from the stored one.
C22_Thresholds ==
    /\ [][(/\ rstate = "running"
           /\ rpos <= Len(batch)
           /\ batch[rpos].status # "closed"
           /\ FracLT(batch[rpos].confidence, Tenths(6)))
          => db' = db]_vars
    /\ [][rstate' = "running" =>
            \A id \in DOMAIN db.gyms :
                db'.gyms[id].name # db.gyms[id].name =>
                    /\ id = batch[rpos].gym_id
                    /\ FracLT(Tenths(8), batch[rpos].confidence)
                    /\ batch[rpos].found_name # None
                    /\ Val(batch[rpos].found_name) # <<>>
                    /\ batch[rpos].found_name # db.gyms[id].name]_vars

\* A committed run of one outcome with confidence between 0.6 and 0.8 whose
\* found name differs from the stored one: the row was updated, the name
\* was not.
C22_Witness ==
    /\ rstate = "committed"
    /\ Len(batch) = 1
    /\ FracLE(Tenths(6), batch[1].confidence)
    /\ FracLE(batch[1].confidence, Tenths(8))
    /\ batch[1].gym_id \in DOMAIN durable.gyms
    /\ batch[1].found_name # None
    /\ durable.gyms[batch[1].gym_id].name # batch[1].found_name
    /\ durable.gyms[batch[1].gym_id].updatedAt = "now"

\* The outcome handled has confidence above 0.8 (as 0.9 has), coordinates
\* that differ from the stored ones and a phone that differs from the
\* stored one, and the found name is no more than 0.8 similar to the
\* stored name; the gym has a row with coordinates and the run is not a dry
\* run.
ConfidentMove ==
    /\ rstate = "running"
    /\ rpos <= Len(batch)
    /\ ~dry_run
    /\ batch[rpos].status \in {"valid", "updated"}
    /\ FracLT(Tenths(8), batch[rpos].confidence)
    /\ batch[rpos].gym_id \in DOMAIN db.gyms
    /\ LET r == batch[rpos]
           cur == db.gyms[r.gym_id]
       IN /\ TruthyNum(r.found_latitude) /\ TruthyNum(r.found_longitude)
          /\ TruthyNum(cur.latitude) /\ TruthyNum(cur.longitude)
          /\ <<r.found_latitude, r.found_longitude>> # <<cur.latitude, cur.longitude>>
          /\ TruthyStr(r.found_phone) /\ r.found_phone # cur.phone
          /\ TruthyStr(r.found_name) /\ TruthyStr(cur.name)
          /\ FracLE(string_similarity(Lower(Val(cur.name)), Lower(Val(r.found_name))),
                    Tenths(8))

CoordsAndPhoneTaken ==
    LET r == batch[rpos]
    IN /\ db'.gyms[r.gym_id].latitude = r.found_latitude
       /\ db'.gyms[r.gym_id].longitude = r.found_longitude
       /\ db'.gyms[r.gym_id].phone = r.found_phone

\* C23: such an outcome updates coordinates and phone and leaves the stored
\* name unchanged.
C23_NameKeptBelowSimilarity ==
    [][ConfidentMove =>
          /\ CoordsAndPhoneTaken
          /\ db'.gyms[batch[rpos].gym_id].name = db.gyms[batch[rpos].gym_id].name]_vars

\* The run is over: committed and closed, or left by an exception.
RunOver == rstate \in {"committed", "closed", "aborted"}

\* Outcome i is one the reconciler applies to a row: not skipped, not a
\* closure, confidence at least 0.6, for a gym that has a row.
Applied(i) ==
    /\ batch[i].status \notin {"error", "closed"}
    /\ FracLE(Tenths(6), batch[i].confidence)
    /\ batch[i].gym_id \in DOMAIN durable.gyms

\* C24: after a run that is not a dry run, the stored latitude and
\* longitude of every gym with an applied outcome that carries found
\* coordinates are the found ones.
C24_CoordinatesTaken ==
    (RunOver /\ ~dry_run) =>
        \A i \in 1..Len(batch) :
            (/\ Applied(i)
             /\ batch[i].found_latitude # None
             /\ batch[i].found_longitude # None)
            => /\ durable.gyms[batch[i].gym_id].latitude = batch[i].found_latitude
               /\ durable.gyms[batch[i].gym_id].longitude = batch[i].found_longitude

-----------------------------------------------------------------------------
(* Similarity properties                                                   *)

\* The pairs of strings _compare_details has passed to _string_similarity:
\* lowered stored and found names, lowered stored and found addresses.
SimilarityInputs ==
    {<<Lower(Val(gyms[i].name)), Lower(Val(d.displayName))>> :
        <<i, d>> \in {p \in (1..Len(gyms)) \X DetailPool :
                        /\ Compared(p[1], p[2])
                        /\ ~IsClosed(p[2])
                        /\ TruthyStr(p[2].displayName)}}
    \cup
    {<<Lower(full_address(gyms[i])), Lower(Val(d.formattedAddress))>> :
        <<i, d>> \in {p \in (1..Len(gyms)) \X DetailPool :
                        /\ Compared(p[1], p[2])
                        /\ ~IsClosed(p[2])
                        /\ TruthyStr(p[2].formattedAddress)
                        /\ full_address(gyms[p[1]]) # <<>>}}

\* C25: the similarity is symmetric, and the similarity of a non-empty
\* string with itself is 1.0.
C25_SymmetricReflexive ==
    \A p \in SimilarityInputs :
        /\ string_similarity(p[1], p[2]) = string_similarity(p[2], p[1])
        /\ (p[1] # <<>> => string_similarity(p[1], p[1]) = One)
        /\ (p[2] # <<>> => string_similarity(p[2], p[2]) = One)

-----------------------------------------------------------------------------
(* Coordinate invariant                                                    *)

BothOrNeither(r) == (r.latitude = None) <=> (r.longitude = None)

\* C26: the input records and the stored gyms having latitude and
\* longitude both set or both unset, so has every record accepted by
\* dedupe at any point, and so has every gym row, in the connection and in
\* the stored file, at any point of a reconciler run.
C26_NoPartialCoordinates ==
    /\ (\A k \in 1..Len(records) : BothOrNeither(records[k]))
          => \A k \in 1..Len(out) : BothOrNeither(out[k])
    /\ \A id \in DOMAIN db.gyms : BothOrNeither(db.gyms[id])
    /\ \A id \in DOMAIN durable.gyms : BothOrNeither(durable.gyms[id])

\* A record without coordinates that took the coordinates of a merged
\* record.
C26_WitnessMerged ==
    /\ DedupeDone
    /\ Len(records) = 2
    /\ records[1].latitude = None
    /\ records[2].latitude # None
    /\ Len(out) = 1
    /\ out[1].latitude = records[2].latitude
    /\ out[1].longitude = records[2].longitude

-----------------------------------------------------------------------------
(* Source ids                                                              *)

\* No record was fetched twice.
FetchedOnce == \A i, j \in 1..Len(records) : records[i] = records[j] => i = j

\* C27: for records each fetched once, no two records of dedupe's output
\* share a source_id, and saving the output stores one row per output
\* record.
C27_SourceIdsUnique ==
    (DedupeDone /\ FetchedOnce) =>
        /\ \A i, j \in 1..Len(out) : out[i].source_id = out[j].source_id => i = j
        /\ Cardinality(DOMAIN save_sqlite(out)) = Len(out)

-----------------------------------------------------------------------------
(* Exact-key path, attribute match, records without a name                 *)

\* The incoming record has a key with a non-empty name.
IncomingKeyed == pos <= Len(records) /\ KeyOf(records[pos])[1] # <<>>

\* C28, with the key of an accepted record read as the key the record has
\* now: an incoming record whose key, with non-empty name, is that of an
\* accepted record leaves the output list as it is.
C28_DropOnCurrentKey ==
    [][(/\ IncomingKeyed
        /\ \E i \in 1..Len(out) : KeyOf(out[i]) = KeyOf(records[pos]))
       => out' = out]_vars

\* key is the key some accepted record had when it was accepted: same name,
\* and city and state the same or filled in since.
AcceptanceKey(key) ==
    \E i \in 1..Len(out) :
        /\ key[1] = KeyOf(out[i])[1]
        /\ key[2] \in {KeyOf(out[i])[2], <<>>}
        /\ key[3] \in {KeyOf(out[i])[3], <<>>}

\* C28, amended: the keys seen are keys under which accepted records were
\* accepted, and an incoming record whose key, with non-empty name, is one
\* of them leaves the output list, every accepted record and the keys seen
\* as they are.
C28_DropOnSeenKey ==
    /\ [](\A key \in seen_keys : key[1] # <<>> /\ AcceptanceKey(key))
    /\ [][(IncomingKeyed /\ KeyOf(records[pos]) \in seen_keys)
          => (out' = out /\ seen_keys' = seen_keys)]_vars

\* A record dropped on its key although it carries a phone and coordinates
\* the accepted record lacks or has otherwise.
C28_Witness ==
    /\ DedupeDone
    /\ Len(records) = 2
    /\ KeyOf(records[1])[1] # <<>>
    /\ KeyOf(records[2]) = KeyOf(records[1])
    /\ records[2].phone # records[1].phone
    /\ records[2].latitude # records[1].latitude
    /\ out = <<records[1]>>

\* C29: for the incoming record r and every accepted record e of which one
\* at least lacks coordinates: if both names are non-empty and
\* substring-compatible and the normalized cities and the normalized states
\* are equal (absent values normalizing to the empty string), r is merged
\* into e (e being the first accepted record r matches, and r not dropped
\* on its exact key); otherwise r is not merged into e, and when that holds
\* of every accepted record r becomes a new output record.
C29_AttributeMatch ==
    [][pos <= Len(records) =>
          LET r == records[pos]
              dropped == ExactKeySeen(r, seen_keys)
              lacking(i) == ~(HasCoords(r) /\ HasCoords(out[i]))
              attribute(i) == /\ r.name # None /\ Val(r.name) # <<>>
                              /\ out[i].name # None /\ Val(out[i].name) # <<>>
                              /\ NameCompat(r, out[i])
                              /\ norm(r.city) = norm(out[i].city)
                              /\ norm(r.state) = norm(out[i].state)
          IN /\ \A i \in 1..Len(out) :
                   lacking(i) =>
                     /\ (/\ attribute(i)
                         /\ ~dropped
                         /\ \A j \in 1..(i - 1) : ~SameGym(r, out[j]))
                        => out' = [out EXCEPT ![i] = MergeInto(out[i], r)]
                     /\ ~attribute(i) => out'[i] = out[i]
             /\ (/\ ~dropped
                 /\ \A i \in 1..Len(out) : lacking(i) /\ ~attribute(i))
                => out' = Append(out, r)]_vars

\* A record without coordinates merged into a record with coordinates of a
\* compatible name in the same city and state, whose phone it fills; both
\* have a city.
C29_Witness ==
    /\ DedupeDone
    /\ Len(records) = 2
    /\ HasCoords(records[1])
    /\ ~HasCoords(records[2])
    /\ KeyOf(records[1]) # KeyOf(records[2])
    /\ norm(records[1].city) # <<>>
    /\ Len(out) = 1
    /\ out[1] # records[1]
    /\ out[1].phone = records[2].phone

Nameless(r) == r.name = None \/ r.name = Some(<<>>)

\* C30: the records without a name among those handled so far are in the
\* output, each as it came in and in the order they came in: none was
\* dropped, none was merged into another record, none had a record merged
\* into it.
C30_NamelessApart ==
    SelectSeq(out, Nameless)
        = SelectSeq(SubSeq(records, 1, pos - 1), Nameless)

\* A record without a name at the coordinates, city and state of the named
\* record accepted before it, and a named record after it at the same
\* place: the nameless one is in the output unchanged.
C30_Witness ==
    /\ DedupeDone
    /\ Len(records) = 3
    /\ ~Nameless(records[1]) /\ Nameless(records[2]) /\ ~Nameless(records[3])
    /\ HasCoords(records[1]) /\ HasCoords(records[2]) /\ HasCoords(records[3])
    /\ DistM(records[1], records[2]) = 0
    /\ DistM(records[3], records[2]) = 0
    /\ norm(records[3].city) = norm(records[2].city)
    /\ Len(out) = 3
    /\ out[2] = records[2]

-----------------------------------------------------------------------------
\* Records without a name and the merge rules.

\* An incoming record without a name is by place at an accepted record:
\* within the merge radius when both have coordinates, in the same
\* normalized city and state otherwise.
NamelessAt(r, ex) ==
    IF HasCoords(r) /\ HasCoords(ex)
    THEN DistM(r, ex) <= MergeRadiusM
    ELSE norm(r.city) = norm(ex.city) /\ norm(r.state) = norm(ex.state)

\* C31: an incoming record without a name that is within 0.25 km of an
\* accepted record, or shares its normalized city and state when coordinates
\* are missing, is merged into an accepted record and is not emitted as a
\* separate output record.  Stated for a named accepted record.
C31_NamelessMerged ==
    [][(/\ pos <= Len(records)
        /\ Nameless(records[pos])
        /\ \E i \in 1..Len(out) :
              KeyOf(out[i])[1] # <<>> /\ NamelessAt(records[pos], out[i]))
       => Len(out') = Len(out)]_vars

-----------------------------------------------------------------------------
\* The text of an error outcome.

\* C32: when the detail request for a gym failed, the outcome of that gym
\* is an error whose message is the text of what the fetcher raised.
C32_DetailErrorText ==
    \A i \in 1..Len(results) :
        \A k \in 1..Len(vlog) :
            (/\ vlog[k].gym_id = gyms[i].id
             /\ vlog[k].event = "detail"
             /\ vlog[k].outcome = "failed")
            => /\ results[i].status = "error"
               /\ results[i].error_message = vlog[k].error

-----------------------------------------------------------------------------
\* What the confidence of a comparison depends on.

\* The gym with other stored coordinates, phone, website and hours.
GymVariants(g) ==
    { [g EXCEPT !.latitude = c[1], !.longitude = c[2], !.phone = o[1],
                !.website = o[2], !.hours = o[3]] :
        c \in {<<None, None>>, <<LatP, Lon0>>},
        o \in {<<None, None, None>>, <<Some(s_7), Some(s_urls), Some(s_m5)>>} }

\* The place details with other coordinates, phone, website and hours.
DetailVariants(d) ==
    { [d EXCEPT !.latitude = c[1], !.longitude = c[2],
                !.internationalPhoneNumber = o[1], !.nationalPhoneNumber = None,
                !.websiteUri = o[2], !.currentOpeningHours = o[3],
                !.regularOpeningHours = None] :
        c \in {<<LatP, Lon0>>, <<LatFar, Lon0>>},
        o \in {<<None, None, None>>, <<Some(s_5), Some(s_url), Some(<<s_t7>>)>>} }

\* C33: the confidence of the outcome of a comparison with a place that is
\* not permanently closed is the confidence of every comparison with the
\* same stored name and address and the same found name and address,
\* whatever the stored and the found coordinates, phone, website and hours.
C33_ConfidenceFromNameAndAddress ==
    \A i \in 1..Len(results) : \A d \in DetailPool :
        (Compared(i, d) /\ ~IsClosed(d)) =>
            \A g2 \in GymVariants(gyms[i]) : \A d2 \in DetailVariants(d) :
                compare_details(g2, d2).confidence = results[i].confidence

\* A compared gym whose confidence is 1 although the place found lies
\* elsewhere and has another phone.
C33_Witness ==
    /\ results # <<>>
    /\ results[1].status = "updated"
    /\ results[1].confidence = One
    /\ \E d \in DetailPool :
          /\ Compared(1, d)
          /\ CoordinateChanges(gyms[1], d) # <<>>
          /\ PhoneChanges(gyms[1], d) # <<>>

-----------------------------------------------------------------------------
\* The reconciler and empty data.

GymFields == {"name", "phone", "website", "hours", "latitude", "longitude"}

\* The value an outcome found for a field of the gym.
FoundFor(r, f) ==
    CASE f = "name" -> r.found_name
      [] f = "phone" -> r.found_phone
      [] f = "website" -> r.found_website
      [] f = "hours" -> r.found_hours
      [] f = "latitude" -> r.found_latitude
      [] f = "longitude" -> r.found_longitude

NonEmptyValue(f, v) ==
    IF f \in {"latitude", "longitude"} THEN TruthyNum(v) ELSE TruthyStr(v)

\* From store s to store t no non-empty field became empty, and every field
\* that changed has a non-empty value some outcome of the batch found for
\* that gym.
NoEmptyOverwrite(s, t) ==
    /\ DOMAIN t.gyms = DOMAIN s.gyms
    /\ \A id \in DOMAIN s.gyms : \A f \in GymFields :
          /\ NonEmptyValue(f, s.gyms[id][f]) => NonEmptyValue(f, t.gyms[id][f])
          /\ t.gyms[id][f] # s.gyms[id][f] =>
                /\ NonEmptyValue(f, t.gyms[id][f])
                /\ \E k \in 1..Len(batch) :
                      /\ batch[k].gym_id = id
                      /\ FoundFor(batch[k], f) = t.gyms[id][f]

\* C34: while a batch is applied, the connection's view of the store
\* differs from the store before the batch (the committed file) only as
\* said above: no non-empty gym field (name, phone, website, hours,
\* latitude, longitude) has become empty, and every value written is a
\* non-empty found value of an outcome of the batch for that gym; and the
\* same holds of every change of the committed file.
C34_NoEmptyOverwrite ==
    /\ [](rstate = "running" => NoEmptyOverwrite(durable, db))
    /\ [][NoEmptyOverwrite(durable, durable')]_vars

\* A committed batch with an outcome for a stored gym that found a phone
\* but neither website nor hours: the phone is written, the stored website
\* and hours are still there.
C34_Witness ==
    /\ rstate = "committed"
    /\ \E k \in 1..Len(batch) :
          /\ batch[k].gym_id \in DOMAIN durable.gyms
          /\ AboveFloor(batch[k])
          /\ batch[k].found_website = None
          /\ batch[k].found_hours = None
          /\ TruthyStr(batch[k].found_phone)
          /\ LET g == durable.gyms[batch[k].gym_id]
             IN /\ g.phone = batch[k].found_phone
                /\ g.updatedAt = "now"
                /\ TruthyStr(g.website)
                /\ TruthyStr(g.hours)

-----------------------------------------------------------------------------
\* The state of the token bucket.

\* C35: with a single caller, after any calls of take(n), n > 0, and any
\* time passing between them, the token count is in [0, capacity]; the
\* last call slept only if the refilled count was below n, and then for
\* (n - tokens) / rate: sleep_for * rate = n - tokens.
C35_BucketInvariant ==
    (thr = <<>> /\ rl.rate > 0) =>
        /\ 0 <= rl.tokens
        /\ rl.tokens <= rl.capacity
        /\ obs.last_sleep > 0 => obs.last_refilled < obs.last_n
        /\ obs.last_refilled < obs.last_n =>
              obs.last_sleep * rl.rate = obs.last_n - obs.last_refilled
        /\ obs.last_refilled >= obs.last_n => obs.last_sleep = 0

\* A call of take(2) that slept, after a call that did not and after time
\* passed from outside; the bucket is empty after it.
C35_Witness ==
    /\ thr = <<>>
    /\ obs.nosleep > 0
    /\ obs.ext > 0
    /\ obs.last_sleep > 0
    /\ obs.last_n = 2 * UnitsPerToken
    /\ rl.tokens = 0

-----------------------------------------------------------------------------
\* Status and confidence of an outcome.

\* C36: every outcome of either provider has a confidence in [0, 1]; an
\* error has confidence 0 and a non-empty error message; a closed outcome
\* has confidence 1 and the permanently-closed flag; not_found has a
\* confidence below 0.5; valid has a confidence of 0.5 or more and no change
\* note.
C36_StatusConfidence ==
    \A i \in 1..Len(results) :
        LET r == results[i]
        IN /\ FracLE(Zero, r.confidence) /\ FracLE(r.confidence, One)
           /\ r.status \in {"valid", "updated", "not_found", "closed", "error"}
           /\ r.status = "error" =>
                 /\ r.confidence = Zero
                 /\ r.error_message # None
                 /\ Val(r.error_message) # ""
           /\ r.status = "closed" =>
                 /\ r.confidence = One
                 /\ r.is_permanently_closed = Some(TRUE)
           /\ r.status = "not_found" => FracLT(r.confidence, Tenths(5))
           /\ r.status = "valid" =>
                 /\ FracLE(Tenths(5), r.confidence)
                 /\ r.changes = <<>>

\* A Nominatim run with a valid outcome and an error outcome.
C36_Witness ==
    /\ provider = "nominatim"
    /\ ValidateDone
    /\ Len(results) = 2
    /\ results[1].status = "valid"
    /\ results[2].status = "error"

\* C37: every outcome with status updated, from the Google Places
\* comparison or from Nominatim, has at least one change note and a
\* confidence of 0.5 or more.
C37_UpdatedHasChanges ==
    \A i \in 1..Len(results) :
        results[i].status = "updated" =>
            /\ results[i].changes # <<>>
            /\ FracLE(Tenths(5), results[i].confidence)

-----------------------------------------------------------------------------
\* The output of dedupe as a selection of its input.

RecordFields == {"name", "city", "state", "latitude", "longitude", "phone"}

EmptyField(f, v) ==
    IF f \in {"latitude", "longitude"} THEN IsEmptyNum(v) ELSE IsEmptyStr(v)

\* The output record o is the input record at position k: it has its
\* source_id and its fields, but for fields that were empty on it and were
\* filled from a record that came in after it.
IsInputRecord(o, k) ==
    /\ o.source_id = records[k].source_id
    /\ \A f \in RecordFields :
          \/ o[f] = records[k][f]
          \/ /\ EmptyField(f, records[k][f])
             /\ \E j \in (k + 1)..(pos - 1) : o[f] = records[j][f]

\* The strictly increasing selections of n positions among the first m.
Selections(n, m) ==
    { s \in [1..n -> 1..m] : \A a, b \in 1..n : a < b => s[a] < s[b] }

\* C38: the output is a selection of the input records handled so far, in
\* input order, each output record being the first-seen record of its group
\* (with the gaps later records of the group filled); it is never longer
\* than the input; and a step of dedupe either appends the incoming record
\* or changes at most one accepted record.
C38_Subsequence ==
    /\ [](/\ Len(out) <= Len(records)
          /\ \E s \in Selections(Len(out), pos - 1) :
                \A k \in 1..Len(out) : IsInputRecord(out[k], s[k]))
    /\ [][pos <= Len(records) =>
            \/ out' = Append(out, records[pos])
            \/ /\ Len(out') = Len(out)
               /\ Cardinality({i \in 1..Len(out) : out'[i] # out[i]}) <= 1]_vars

\* Three records in, two out: the second was merged into the first, which
\* is no longer as it came in, and the third was accepted after it.
C38_Witness ==
    /\ DedupeDone
    /\ Len(records) = 3
    /\ Len(out) = 2
    /\ out[1] # records[1]
    /\ out[1].source_id = records[1].source_id
    /\ out[1].phone = records[2].phone
    /\ out[2] = records[3]
    /\ records[3] # records[1]

-----------------------------------------------------------------------------
\* The outcomes of a batch, one by one.

\* C39: whatever the stored state of any one gym, when a run that is not a
\* dry run is over the closure marker of every closed outcome of the batch
\* and the found phone of every applied outcome for a gym with stored
\* coordinates are in the committed file: no outcome keeps the others from
\* being applied and committed.
C39_BatchIndependent ==
    (RunOver /\ ~dry_run) =>
        \A i \in 1..Len(batch) :
            /\ ClosureOf(batch[i]) => MarkersOf(durable, batch[i].gym_id) >= 1
            /\ (/\ Applied(i)
                /\ TruthyStr(batch[i].found_phone)
                /\ TruthyNum(durable.gyms[batch[i].gym_id].latitude))
               => durable.gyms[batch[i].gym_id].phone = batch[i].found_phone

-----------------------------------------------------------------------------
\* Closure markers, run after run.

\* C40: once a run has committed, the store holds exactly one closure marker
\* for the gym of every closed outcome of the batch, whether or not an
\* earlier run had marked the gym.
C40_OneMarkerPerGym ==
    rstate = "committed" =>
        \A i \in 1..Len(batch) :
            ClosureOf(batch[i]) => MarkersOf(durable, batch[i].gym_id) = 1

=============================================================================
